---- MODULE Spec2Model ----
(***************************************************************************)
(* Avalon Miner integration: the polling state machine                      *)
(* (AvalonMinerCoordinator._async_update_data), the auto-configuration      *)
(* sequencer (_on_connect), the snapshot assembler (fetch_full_snapshot)    *)
(* and the TCP transport (AvalonMinerClient._send_command / is_online).     *)
(*                                                                         *)
(* asyncio runs one coroutine at a time and switches only at an await, so  *)
(* every action below is the code between two awaits of one task.          *)
(* Time is counted in units of the sequencer's inter-attempt delay; I/O    *)
(* takes no model time.                                                    *)
(***************************************************************************)
EXTENDS Integers, Sequences, FiniteSets, TLC

\* ------------------------------------------------------------------ bounds
\* Number of control-API callers (button / switch / number entities) that can
\* be inside the client at once.
NumCallers == 1
\* Longest idle time (in delay units) the clock is followed since the last
\* energy sample before a tick starts.
MaxIdle == 1
\* A probe fails only while the consecutive-offline counter is below this.
MaxOfflineCount == 3
\* Ticks start only while the energy total is below this.
MaxEnergy == 7

\* ------------------------------------------------------- program constants
max_attempts == 10
LowActivityThreshold == 5
VOLTAGE_MIN == 0
VOLTAGE_MAX == 60
DEFAULT_VOLTAGE == 25
DEFAULT_HASH_NO == 0
\* asyncio.sleep(sleep_between_attempts) and DEFAULT_SCAN_INTERVAL, in seconds
sleep_between_attempts == 30

VALID_MINER_FREQUENCIES ==
    { 25, 300, 312, 325, 337, 350, 362, 375, 387, 400, 408, 412, 416, 425, 433,
      437, 441, 450, 458, 462, 466, 475, 483, 487, 491, 500, 508, 512, 516, 525,
      533, 537, 550, 562, 575, 587, 600, 612, 625, 637, 650, 662, 675, 687, 700,
      712, 725, 737, 750, 762, 775, 787, 800, 825, 850, 875, 900, 925, 950, 975,
      1000, 1025, 1050, 1075, 1100, 1125, 1150, 1175, 1200 }

DefaultFreqs == <<325, 337, 350, 362>>

\* ------------------------------------------------------------------ tasks
\* "tick" is the coordinator's refresh task; the callers are entity service
\* calls (button, switch, number) that use the same client.
Tick == "tick"
Callers == { "caller" \o ToString(i) : i \in 1..NumCallers }
Tasks == {Tick} \cup Callers
Free == "free"
\* _last_energy_ts is None
NoTimestamp == -1

\* --------------------------------------------------------------- commands
CMD_QUERY_CONTROLLER_VERSION == <<"version">>
CMD_QUERY_SUMMARY == <<"summary">>
CMD_QUERY_DETAILS == <<"estats">>
CMD_QUERY_HASH_POWER_STATE == <<"ascset|0,hashpower">>
CMD_QUERY_CURRENT_POOL == <<"pools">>
CMD_ENABLE_FAN == <<"ascset|0,fan-spd,100">>
CMD_SOFT_SHUTDOWN == <<"ascset|0,softoff">>
CMD_REBOOT_MINER == <<"ascset|0,reboot,0">>
CMD_SHUTDOWN_HASH_POWER == <<"ascset|0,hashpower,0">>
cmd_set_voltage(voltage) == <<"ascset|0,voltage-level,", voltage, "-0-0">>
cmd_set_frequency(f, hash_no) ==
    <<"ascset|0,frequency,", f[1], ":", f[2], ":", f[3], ":", f[4], "-0-", hash_no, "-0">>
NoCmd == <<>>

\* ------------------------------------------------- the device's answers
\* What the device can answer to a command, as the value the query functions
\* extract from the parsed records.
MhsValues == {0, LowActivityThreshold, LowActivityThreshold + 1}
PowerValues == {-6, 0, 6}
DetailsOk == "MM ID0 ok"
DetailsMalformed == "MM ID0 malformed"
Responses(c) ==
    IF c = CMD_QUERY_SUMMARY THEN MhsValues
    ELSE IF c = CMD_QUERY_HASH_POWER_STATE THEN PowerValues
    ELSE IF c = CMD_QUERY_DETAILS THEN {DetailsOk, DetailsMalformed}
    ELSE IF c = CMD_QUERY_CONTROLLER_VERSION THEN {"version 1"}
    ELSE IF c = CMD_QUERY_CURRENT_POOL THEN {"pool 0"}
    ELSE {"STATUS=I"}

NoPending == [kind |-> "none"]
Raw(v) == [kind |-> "raw", val |-> v]
Exc(e) == [kind |-> e]
\* the outcomes of _send_command that are exceptions a caller's
\* "except Exception" catches
Raises(o) == o.kind \in {"timeout", "oserror", "empty"}

VARIABLES
    \* PollState (AvalonMinerCoordinator.__init__)
    was_online, offline_count, energy_kwh, since_energy_ts,
    \* configuration store (entry.data / entry.options)
    auto_start, profile,
    \* AvalonMinerClient: the gate, its FIFO of waiters, open connections, and
    \* for every task its await point, its command and the read's outcome
    lock, waiters, conn, pc, cmd, pending,
    \* the frame of the running (or last) tick: its locals and what it has done
    run,
    \* result of the most recent completed probe
    last_probe,
    \* for every caller, its last call of set_voltage, set_frequency or
    \* start_hashing: the arguments, the commands handed to _send_command
    \* and how the call ended
    api,
    \* one exchange on a connection: what the device has still to send, what
    \* has arrived in the stream reader, and what _send_command made of it
    wire,
    \* the response text handed to the parser, and what the parser returned
    text, parsed,
    \* AvalonMinerAllTimeBestShareSensor: its record and the coordinator
    \* updates it has been given
    sensor,
    \* the config entry: entry.data and entry.options, of which auto_start
    \* and profile are the merged view the coordinator's properties return
    entry

pollVars == <<was_online, offline_count, energy_kwh, since_energy_ts>>
confVars == <<auto_start, profile>>
clientVars == <<lock, waiters, conn, pc, cmd, pending>>
unitVars == <<wire, text, parsed, sensor, entry>>
vars == <<pollVars, confVars, clientVars, run, last_probe, api, unitVars>>

\* ------------------------------------------------------------ data classes
\* MinerData(ip=..., online=...); every other field takes its default
MinerData(online) ==
    [online |-> online, controller |-> "", mhs_30s |-> 0, estats |-> "",
     output_power_w |-> 0, pools |-> <<>>]

\* round(x, 4) of a total kept in W * delay units: the nearest multiple of
\* 0.0001 kWh (= 360 Ws), ties to even
SecondsPerRounded == 360
RoundHalfEven(num, den) ==
    LET q == num \div den
        r == num % den
    IN  IF 2 * r < den THEN q
        ELSE IF 2 * r > den THEN q + 1
        ELSE IF q % 2 = 0 THEN q ELSE q + 1
Round4(e) == RoundHalfEven(e * sleep_between_attempts, SecondsPerRounded)

\* the frame of a tick that has not started
NoRun ==
    [status |-> "none", plan |-> <<>>, phase |-> "none", attempt |-> 0,
     data |-> MinerData(FALSE), details |-> "",
     prev_online |-> FALSE, prev_probe |-> "none", prev_offline |-> 0,
     probe_ok |-> "none", seq_calls |-> 0, seq_state |-> "none",
     n_summary |-> 0, n_delays |-> 0, all_zero |-> TRUE, attempt_mhs |-> <<>>,
     push_log |-> <<>>, any_push |-> FALSE, snap_log |-> <<>>, resp |-> <<>>,
     cancel_at |-> "none", result |-> <<>>,
     energy_before |-> 0, since_at_sample |-> NoTimestamp]

\* no exchange, no parse and no sensor in the picture
NoWire == [phase |-> "none"]
NoParse == [done |-> FALSE]
NoSensor == [phase |-> "none"]

\* no call of the validating entry points yet
NoCall ==
    [op |-> "none", voltage |-> 0, freqs |-> <<>>, hash_no |-> 0,
     sent |-> <<>>, result |-> "none"]

\* ---------------------------------------------------------------- transport
\* Variant: _send_command without "async with self._lock".
SendCommandEnterNoGate(t, c, lk) ==
    /\ cmd' = [cmd EXCEPT ![t] = c]
    /\ pending' = [pending EXCEPT ![t] = NoPending]
    /\ lock' = lk
    /\ waiters' = waiters
    /\ pc' = [pc EXCEPT ![t] = "connecting"]

\* Task t calls _send_command(c) while the gate is in state lk:
\* "async with self._lock" takes a free gate nobody queues for without
\* suspending, and otherwise queues t (asyncio.Lock is FIFO); then
\* "await open_connection".
SendCommandEnter(t, c, lk) ==
    /\ cmd' = [cmd EXCEPT ![t] = c]
    /\ pending' = [pending EXCEPT ![t] = NoPending]
    /\ IF lk = Free /\ waiters = <<>>
         THEN /\ lock' = t
              /\ waiters' = waiters
              /\ pc' = [pc EXCEPT ![t] = "connecting"]
         ELSE /\ lock' = lk
              /\ waiters' = Append(waiters, t)
              /\ pc' = [pc EXCEPT ![t] = "lockwait"]

\* Task t has nothing more to await; lk is the gate's state it leaves.
Finish(t, lk) ==
    /\ lock' = lk
    /\ waiters' = waiters
    /\ pc' = [pc EXCEPT ![t] = "idle"]
    /\ cmd' = [cmd EXCEPT ![t] = NoCmd]
    /\ pending' = [pending EXCEPT ![t] = NoPending]

\* await asyncio.sleep(sleep_between_attempts)
Sleep(t, lk) ==
    /\ lock' = lk
    /\ waiters' = waiters
    /\ pc' = [pc EXCEPT ![t] = "sleep"]
    /\ cmd' = [cmd EXCEPT ![t] = NoCmd]
    /\ pending' = [pending EXCEPT ![t] = NoPending]

\* Variant: the gate is released only by a command that ended with a response
\* (acquire/release written out without try/finally).
ReleasedOnSuccessOnly(t) ==
    IF lock = t /\ pc[t] = "closing" /\ pending[t].kind = "raw" THEN Free ELSE lock

\* The gate as task t leaves it when its _send_command ends ("async with" exit).
Released(t) == IF lock = t THEN Free ELSE lock

\* The outcomes with which the _send_command of task t can end in this state:
\* open_connection failed (nothing to close), or the connection has been
\* closed and the read's outcome is returned or raised.
Outcomes(t) ==
    IF pc[t] = "connecting" THEN {Exc("timeout"), Exc("oserror")}
    ELSE IF pc[t] = "closing" /\ pending[t].kind # "cancelled" THEN {pending[t]}
    ELSE {}

\* the head of the gate's queue is woken after a release
LockGranted(t) ==
    /\ pc[t] = "lockwait"
    /\ lock = Free
    /\ waiters # <<>> /\ Head(waiters) = t
    /\ lock' = t
    /\ waiters' = Tail(waiters)
    /\ pc' = [pc EXCEPT ![t] = "connecting"]
    /\ UNCHANGED <<pollVars, confVars, unitVars, api, conn, cmd, pending, run, last_probe>>

\* open_connection succeeded; the command is written and the read awaited
ConnectOk(t) ==
    /\ pc[t] = "connecting"
    /\ conn' = conn \cup {t}
    /\ pc' = [pc EXCEPT ![t] = "io"]
    /\ UNCHANGED <<pollVars, confVars, unitVars, api, lock, waiters, cmd, pending, run, last_probe>>

\* the read ends (data, no data, timeout or socket error); "finally" closes
\* the writer and awaits wait_closed
IoDone(t) ==
    /\ pc[t] = "io"
    /\ \E o \in {Raw(v) : v \in Responses(cmd[t])}
                \cup {Exc("empty"), Exc("timeout"), Exc("oserror")} :
           pending' = [pending EXCEPT ![t] = o]
    /\ pc' = [pc EXCEPT ![t] = "closing"]
    /\ UNCHANGED <<pollVars, confVars, unitVars, api, lock, waiters, conn, cmd, run, last_probe>>

\* --------------------------------------------------------------- validation
\* Variant: the upper voltage bound off by one.
VoltageValidLoose(v) == VOLTAGE_MIN <= v /\ v <= VOLTAGE_MAX + 1

\* Variant: equal neighbouring zones pass the ordering test.
FrequencyValidNonStrict(f) ==
    /\ \A i \in 1..4 : f[i] \in VALID_MINER_FREQUENCIES
    /\ f[1] <= f[2] /\ f[2] <= f[3] /\ f[3] <= f[4]

\* set_voltage: "if not (0 <= voltage <= 60): raise ValueError"
VoltageValid(v) == VOLTAGE_MIN <= v /\ v <= VOLTAGE_MAX
\* set_frequency: every value in VALID_MINER_FREQUENCIES, strictly ascending
FrequencyValid(f) ==
    /\ \A i \in 1..4 : f[i] \in VALID_MINER_FREQUENCIES
    /\ f[1] < f[2] /\ f[2] < f[3] /\ f[3] < f[4]

\* -------------------------------------------------------------- the tick
\* Variant: the sequencer runs on every reachable tick with auto-start set
\* (the "if just_came_online" test dropped).
TickPlanEveryOnlineTick(just_came_online, auto) ==
    IF auto THEN <<"on_connect", "snapshot">> ELSE <<"snapshot">>

\* Variant: the snapshot is fetched before the sequencer runs.
TickPlanSnapshotFirst(just_came_online, auto) ==
    IF just_came_online /\ auto THEN <<"snapshot", "on_connect">>
    ELSE <<"snapshot">>

\* The stages _async_update_data runs after a reachable probe, in order.
TickPlan(just_came_online, auto) ==
    IF just_came_online /\ auto THEN <<"on_connect", "snapshot">>
    ELSE <<"snapshot">>

\* fetch_full_snapshot issues its five queries in this order
SnapOrder ==
    <<CMD_QUERY_CONTROLLER_VERSION, CMD_QUERY_SUMMARY, CMD_QUERY_DETAILS,
      CMD_QUERY_HASH_POWER_STATE, CMD_QUERY_CURRENT_POOL>>

\* Variant: a hashrate of exactly the threshold counts as warmed up
\* ("summary.mhs_30s < 5").
NotReadyStrict(mhs) == mhs < LowActivityThreshold

\* "summary.mhs_30s <= 5": not warmed up yet
NotReady(mhs) == mhs <= LowActivityThreshold

\* Variant: the first sample is integrated too (no test for a previous
\* timestamp).
AccumulateNoBaseline(e, sn, d) ==
    IF d.output_power_w > 0 THEN e + d.output_power_w * sn ELSE e

\* Variant: the sample is added whatever the sign of the reported power.
AccumulateSigned(e, sn, d) ==
    IF sn # NoTimestamp THEN e + d.output_power_w * sn ELSE e

\* Energy accumulation at the end of a tick whose snapshot is d, with the
\* clock reading sn (time since _last_energy_ts, NoTimestamp if None).
Accumulate(e, sn, d) ==
    IF sn # NoTimestamp /\ d.output_power_w > 0
    THEN e + d.output_power_w * sn
    ELSE e

\* Variant: the snapshot carries the sequencer's outcome in one of its fields.
EpilogueFlagsSequencer(r, lk, sn) ==
    LET e2 == Accumulate(energy_kwh, sn, r.data)
        d  == [r.data EXCEPT !.controller = r.seq_state]
                  @@ [energy_consumed_kwh |-> Round4(e2)]
    IN  /\ energy_kwh' = e2
        /\ since_energy_ts' = 0
        /\ run' = [r EXCEPT !.status = "returned", !.phase = "none",
                            !.result = <<d>>, !.energy_before = energy_kwh,
                            !.since_at_sample = sn]
        /\ Finish(Tick, lk)

\* The tail of _async_update_data: accumulate energy, stamp the sample,
\* attach the rounded total and return the snapshot.
Epilogue(r, lk, sn) ==
    LET e2 == Accumulate(energy_kwh, sn, r.data)
        d  == r.data @@ [energy_consumed_kwh |-> Round4(e2)]
    IN  /\ energy_kwh' = e2
        /\ since_energy_ts' = 0
        /\ run' = [r EXCEPT !.status = "returned", !.phase = "none",
                            !.result = <<d>>, !.energy_before = energy_kwh,
                            !.since_at_sample = sn]
        /\ Finish(Tick, lk)

\* await self._on_connect(): the first attempt's query_summary is issued
BeginOnConnect(r, lk, sn) ==
    /\ run' = [r EXCEPT !.plan = Tail(r.plan), !.phase = "seq_summary",
                        !.attempt = 1, !.seq_calls = @ + 1,
                        !.seq_state = "running", !.n_summary = 1,
                        !.n_delays = 0, !.all_zero = TRUE,
                        !.attempt_mhs = <<>>, !.push_log = <<>>,
                        !.any_push = FALSE]
    /\ SendCommandEnter(Tick, CMD_QUERY_SUMMARY, lk)
    /\ energy_kwh' = energy_kwh
    /\ since_energy_ts' = sn

\* await self._client.fetch_full_snapshot(...): data = MinerData(online=True)
\* and the first query is issued
BeginSnapshot(r, lk, sn) ==
    /\ run' = [r EXCEPT !.plan = Tail(r.plan), !.phase = "snap",
                        !.data = MinerData(TRUE), !.details = "",
                        !.snap_log = <<SnapOrder[1]>>, !.resp = <<>>]
    /\ SendCommandEnter(Tick, SnapOrder[1], lk)
    /\ energy_kwh' = energy_kwh
    /\ since_energy_ts' = sn

\* Continue the tick with the next stage of its plan, or end it.
RunPlan(r, lk, sn) ==
    IF r.plan = <<>> THEN Epilogue(r, lk, sn)
    ELSE IF Head(r.plan) = "on_connect" THEN BeginOnConnect(r, lk, sn)
    ELSE BeginSnapshot(r, lk, sn)

\* The external timer (or a requested refresh) calls _async_update_data:
\* "online = await self._client.is_online()".
TickStart ==
    /\ pc[Tick] = "idle"
    /\ energy_kwh < MaxEnergy
    /\ since_energy_ts <= MaxIdle
    /\ run' = [NoRun EXCEPT !.status = "running", !.phase = "probe",
                            !.prev_online = was_online,
                            !.prev_probe = last_probe,
                            !.prev_offline = offline_count]
    /\ pc' = [pc EXCEPT ![Tick] = "probe"]
    /\ UNCHANGED <<pollVars, confVars, unitVars, api, lock, waiters, conn, cmd, pending, last_probe>>

\* Variant: an unreachable device makes the tick raise UpdateFailed instead
\* of returning the stub.
ProbeFailRaises ==
    /\ pc[Tick] = "probe"
    /\ offline_count < MaxOfflineCount
    /\ offline_count' = offline_count + 1
    /\ was_online' = FALSE
    /\ last_probe' = "down"
    /\ run' = [run EXCEPT !.probe_ok = "down", !.status = "failed",
                          !.phase = "none"]
    /\ Finish(Tick, lock)
    /\ UNCHANGED <<energy_kwh, since_energy_ts, confVars, unitVars, api, conn>>

\* Variant: the offline branch sets the counter to 1 instead of adding 1.
ProbeFailCountsOnce ==
    /\ pc[Tick] = "probe"
    /\ offline_count < MaxOfflineCount
    /\ offline_count' = 1
    /\ was_online' = FALSE
    /\ last_probe' = "down"
    /\ run' = [run EXCEPT !.probe_ok = "down", !.status = "returned",
                          !.phase = "none", !.result = <<MinerData(FALSE)>>]
    /\ Finish(Tick, lock)
    /\ UNCHANGED <<energy_kwh, since_energy_ts, confVars, unitVars, api, conn>>

\* is_online returned False: the offline branch
ProbeFail ==
    /\ pc[Tick] = "probe"
    /\ offline_count < MaxOfflineCount
    /\ offline_count' = offline_count + 1
    /\ was_online' = FALSE
    /\ last_probe' = "down"
    /\ run' = [run EXCEPT !.probe_ok = "down", !.status = "returned",
                          !.phase = "none", !.result = <<MinerData(FALSE)>>]
    /\ Finish(Tick, lock)
    /\ UNCHANGED <<energy_kwh, since_energy_ts, confVars, unitVars, api, conn>>

\* is_online: open_connection succeeded within the probe timeout;
\* writer.close(); await writer.wait_closed(), which returns or raises
ProbeConnect ==
    /\ pc[Tick] = "probe"
    /\ conn' = conn \cup {Tick}
    /\ pc' = [pc EXCEPT ![Tick] = "probe_closing"]
    /\ \E o \in {NoPending, Exc("oserror")} :
         pending' = [pending EXCEPT ![Tick] = o]
    /\ UNCHANGED <<pollVars, confVars, unitVars, api, lock, waiters, cmd, run, last_probe>>

\* Variant: is_online without the inner try around wait_closed: an error
\* while closing reaches "except Exception: return False".
ProbeClosedStrict ==
    /\ pc[Tick] = "probe_closing"
    /\ conn' = conn \ {Tick}
    /\ IF Raises(pending[Tick])
       THEN /\ offline_count' = IF offline_count < MaxOfflineCount
                                THEN offline_count + 1 ELSE offline_count
            /\ was_online' = FALSE
            /\ last_probe' = "down"
            /\ run' = [run EXCEPT !.probe_ok = "down", !.status = "returned",
                                  !.phase = "none",
                                  !.result = <<MinerData(FALSE)>>]
            /\ Finish(Tick, lock)
            /\ UNCHANGED <<energy_kwh, since_energy_ts>>
       ELSE /\ was_online' = TRUE
            /\ offline_count' = 0
            /\ last_probe' = "up"
            /\ RunPlan([run EXCEPT !.probe_ok = "up",
                                   !.plan = TickPlan(~was_online, auto_start)],
                       lock, since_energy_ts)
    /\ UNCHANGED <<confVars, unitVars, api>>

\* Variant: the online flag is left for after the sequencer when the device
\* just came online with auto-start set.
ProbeClosedCommitsLate ==
    /\ pc[Tick] = "probe_closing"
    /\ conn' = conn \ {Tick}
    /\ was_online' = (was_online \/ ~auto_start)
    /\ offline_count' = 0
    /\ last_probe' = "up"
    /\ RunPlan([run EXCEPT !.probe_ok = "up",
                           !.plan = TickPlan(~was_online, auto_start)],
               lock, since_energy_ts)
    /\ UNCHANGED <<confVars, unitVars, api>>

\* is_online returned True (an error of wait_closed is swallowed): the
\* online branch up to its first await
ProbeClosed ==
    /\ pc[Tick] = "probe_closing"
    /\ conn' = conn \ {Tick}
    /\ was_online' = TRUE
    /\ offline_count' = 0
    /\ last_probe' = "up"
    /\ RunPlan([run EXCEPT !.probe_ok = "up",
                           !.plan = TickPlan(~was_online, auto_start)],
               lock, since_energy_ts)
    /\ UNCHANGED <<confVars, unitVars, api>>

\* ---------------------------------------------------------- the sequencer
\* Variant: no delay after the last attempt (the sleep guarded by
\* "if attempt < max_attempts").
SeqRetryNoLastDelay(r) ==
    IF r.attempt < max_attempts
    THEN /\ run' = [r EXCEPT !.phase = "seq_sleep"]
         /\ Sleep(Tick, Released(Tick))
         /\ UNCHANGED <<energy_kwh, since_energy_ts>>
    ELSE RunPlan([r EXCEPT !.seq_state = "exhausted", !.attempt = 0,
                           !.n_summary = 0, !.n_delays = 0, !.all_zero = TRUE,
                           !.any_push = FALSE, !.attempt_mhs = <<>>,
                           !.push_log = <<>>],
                 Released(Tick), since_energy_ts)

\* An attempt ended without success: "await asyncio.sleep(...)" (after a
\* not-ready summary, a False from start_hashing, or in the except handler).
SeqRetry(r) ==
    /\ run' = [r EXCEPT !.phase = "seq_sleep"]
    /\ Sleep(Tick, Released(Tick))
    /\ UNCHANGED <<energy_kwh, since_energy_ts>>

\* start_hashing goes on to its next command c
PushNext(r, c, ph) ==
    /\ run' = [r EXCEPT !.phase = ph, !.push_log = Append(@, c),
                        !.any_push = TRUE]
    /\ SendCommandEnter(Tick, c, Released(Tick))
    /\ UNCHANGED <<energy_kwh, since_energy_ts>>

\* _on_connect returns (how: "success" after a push, "exhausted" after the
\* loop): its frame, and what was observed of it, is dropped
SeqReturned(r, how) ==
    [r EXCEPT !.seq_state = how, !.attempt = 0, !.n_summary = 0,
              !.n_delays = 0, !.all_zero = TRUE, !.any_push = FALSE,
              !.attempt_mhs = <<>>, !.push_log = <<>>]

\* query_summary of the current attempt returned or raised
SeqSummaryDone ==
    /\ run.phase = "seq_summary"
    /\ \E o \in Outcomes(Tick) :
         IF Raises(o)
         THEN SeqRetry([run EXCEPT !.all_zero = FALSE])
         ELSE LET r == [run EXCEPT !.attempt_mhs = <<o.val>>,
                                   !.all_zero = @ /\ o.val = 0]
              IN  IF NotReady(o.val)
                  THEN SeqRetry(r)
                  ELSE PushNext(r, CMD_ENABLE_FAN, "seq_fan")
    /\ conn' = conn \ {Tick}
    /\ UNCHANGED <<was_online, offline_count, confVars, unitVars, api, last_probe>>

\* Variant: start_hashing goes on to set_voltage whatever enable_fan did.
SeqFanDoneIgnoresFailure ==
    /\ run.phase = "seq_fan"
    /\ Outcomes(Tick) # {}
    /\ PushNext(run, cmd_set_voltage(profile.voltage), "seq_volt")
    /\ conn' = conn \ {Tick}
    /\ UNCHANGED <<was_online, offline_count, confVars, unitVars, api, last_probe>>

\* start_hashing: enable_fan returned or raised; then set_voltage validates
\* and sends
SeqFanDone ==
    /\ run.phase = "seq_fan"
    /\ \E o \in Outcomes(Tick) :
         IF Raises(o) \/ ~VoltageValid(profile.voltage)
         THEN SeqRetry(run)
         ELSE PushNext(run, cmd_set_voltage(profile.voltage), "seq_volt")
    /\ conn' = conn \ {Tick}
    /\ UNCHANGED <<was_online, offline_count, confVars, unitVars, api, last_probe>>

\* start_hashing: set_voltage returned or raised; then set_frequency
\* validates and sends
SeqVoltDone ==
    /\ run.phase = "seq_volt"
    /\ \E o \in Outcomes(Tick) :
         IF Raises(o) \/ ~FrequencyValid(profile.freqs)
         THEN SeqRetry(run)
         ELSE PushNext(run, cmd_set_frequency(profile.freqs, profile.hash_no),
                       "seq_freq")
    /\ conn' = conn \ {Tick}
    /\ UNCHANGED <<was_online, offline_count, confVars, unitVars, api, last_probe>>

\* Variant: _on_connect does not return after a successful push but falls
\* through to the delay.
SeqFreqDoneNoReturn ==
    /\ run.phase = "seq_freq"
    /\ \E o \in Outcomes(Tick) :
         IF Raises(o)
         THEN SeqRetry(run)
         ELSE SeqRetry([run EXCEPT !.seq_state = "success"])
    /\ conn' = conn \ {Tick}
    /\ UNCHANGED <<was_online, offline_count, confVars, unitVars, api, last_probe>>

\* start_hashing: set_frequency returned (True: _on_connect returns) or
\* raised (False: retry)
SeqFreqDone ==
    /\ run.phase = "seq_freq"
    /\ \E o \in Outcomes(Tick) :
         IF Raises(o)
         THEN SeqRetry(run)
         ELSE RunPlan(SeqReturned(run, "success"), Released(Tick),
                      since_energy_ts)
    /\ conn' = conn \ {Tick}
    /\ UNCHANGED <<was_online, offline_count, confVars, unitVars, api, last_probe>>

\* Variant: the loop bound off by one (range(1, max_attempts + 2)).
HasNextAttemptOffByOne(a) == a <= max_attempts

\* Whether the for loop has another attempt after attempt a
HasNextAttempt(a) == a < max_attempts

\* the clock after one more delay
Later(sn) == IF sn = NoTimestamp THEN sn ELSE sn + 1

\* asyncio.sleep returned: the next attempt's query_summary, or the loop is
\* exhausted and _on_connect returns
SleepDone ==
    /\ pc[Tick] = "sleep"
    /\ LET r == [run EXCEPT !.n_delays = @ + 1]
       IN  IF HasNextAttempt(run.attempt)
           THEN /\ run' = [r EXCEPT !.attempt = @ + 1, !.phase = "seq_summary",
                                    !.n_summary = @ + 1, !.attempt_mhs = <<>>,
                                    !.push_log = <<>>]
                /\ SendCommandEnter(Tick, CMD_QUERY_SUMMARY, lock)
                /\ energy_kwh' = energy_kwh
                /\ since_energy_ts' = Later(since_energy_ts)
           ELSE RunPlan(SeqReturned(r, "exhausted"), lock,
                        Later(since_energy_ts))
    /\ UNCHANGED <<was_online, offline_count, confVars, unitVars, api, conn, last_probe>>

\* ----------------------------------------------------- snapshot assembly
\* The effect of sub-query c ending with outcome o on the snapshot: a
\* failure is logged and the fields keep their defaults.
ApplyResponse(d, c, o) ==
    IF Raises(o) THEN d
    ELSE IF c = CMD_QUERY_CONTROLLER_VERSION THEN [d EXCEPT !.controller = o.val]
    ELSE IF c = CMD_QUERY_SUMMARY THEN [d EXCEPT !.mhs_30s = o.val]
    ELSE IF c = CMD_QUERY_HASH_POWER_STATE THEN [d EXCEPT !.output_power_w = o.val]
    ELSE IF c = CMD_QUERY_CURRENT_POOL THEN [d EXCEPT !.pools = <<o.val>>]
    ELSE d

\* what a sub-query contributed: its value, or nothing when it failed
Contribution(o) == IF Raises(o) THEN <<>> ELSE <<o.val>>

\* "details" after query_details returned or raised
DetailsAfter(det, c, o) ==
    IF c = CMD_QUERY_DETAILS /\ ~Raises(o) THEN o.val ELSE det

\* Variant: a failed sub-query ends the assembly; the later queries are
\* not issued.
SnapQueryDoneStopsOnFailure ==
    /\ run.phase = "snap"
    /\ Len(run.snap_log) < Len(SnapOrder)
    /\ \E o \in Outcomes(Tick) :
         LET i == Len(run.snap_log)
             c == SnapOrder[i]
             r == [run EXCEPT !.data = ApplyResponse(@, c, o),
                              !.details = DetailsAfter(@, c, o),
                              !.resp = Append(@, Contribution(o))]
         IN  IF Raises(o)
             THEN RunPlan(r, Released(Tick), since_energy_ts)
             ELSE /\ run' = [r EXCEPT !.snap_log = Append(@, SnapOrder[i + 1])]
                  /\ SendCommandEnter(Tick, SnapOrder[i + 1], Released(Tick))
                  /\ UNCHANGED <<energy_kwh, since_energy_ts>>
    /\ conn' = conn \ {Tick}
    /\ UNCHANGED <<was_online, offline_count, confVars, unitVars, api, last_probe>>

\* one of the first four sub-queries ended; the next is issued whatever the
\* outcome
SnapQueryDone ==
    /\ run.phase = "snap"
    /\ Len(run.snap_log) < Len(SnapOrder)
    /\ \E o \in Outcomes(Tick) :
         LET i == Len(run.snap_log)
             c == SnapOrder[i]
         IN  /\ run' = [run EXCEPT !.data = ApplyResponse(@, c, o),
                                   !.details = DetailsAfter(@, c, o),
                                   !.resp = Append(@, Contribution(o)),
                                   !.snap_log = Append(@, SnapOrder[i + 1])]
             /\ SendCommandEnter(Tick, SnapOrder[i + 1], Released(Tick))
    /\ conn' = conn \ {Tick}
    /\ UNCHANGED <<pollVars, confVars, unitVars, api, last_probe>>

\* the last sub-query ended: populate from summary and ("if details:") from
\* estats; parse_hashboards_and_temps / parse_fan_data raise on a record of an
\* unexpected shape, which _async_update_data turns into UpdateFailed
SnapshotAssembled ==
    /\ run.phase = "snap"
    /\ Len(run.snap_log) = Len(SnapOrder)
    /\ \E o \in Outcomes(Tick) :
         LET c == SnapOrder[Len(SnapOrder)]
             r == [run EXCEPT !.data = ApplyResponse(@, c, o),
                              !.resp = Append(@, Contribution(o))]
         IN  IF run.details = DetailsMalformed
             THEN /\ run' = [r EXCEPT !.status = "failed", !.phase = "none"]
                  /\ Finish(Tick, Released(Tick))
                  /\ UNCHANGED <<energy_kwh, since_energy_ts>>
             ELSE RunPlan([r EXCEPT !.data.estats = run.details],
                          Released(Tick), since_energy_ts)
    /\ conn' = conn \ {Tick}
    /\ UNCHANGED <<was_online, offline_count, confVars, unitVars, api, last_probe>>

\* ------------------------------------------------------------ cancellation
\* The refresh task is cancelled from outside (task.cancel() at teardown):
\* CancelledError is raised at the await the task is suspended in.  It is a
\* BaseException, so no "except Exception" of the tick catches it.
CancelPoints == {"probe", "probe_closing", "lockwait", "connecting", "io", "closing", "sleep"}

\* Variant: the except handler of the loop swallows the CancelledError raised
\* in the delay ("except BaseException"), so the loop goes on.
AfterCancelSwallowed(p) ==
    IF p = "io" THEN "closing" ELSE IF p = "sleep" THEN "sleep" ELSE "idle"

\* Where the tick is after the CancelledError raised at await point p has
\* been handled: the read's "finally" first closes the writer and awaits
\* wait_closed; everywhere else the error leaves _async_update_data.
AfterCancel(p) == IF p = "io" THEN "closing" ELSE "idle"

Cancel ==
    /\ run.status = "running"
    /\ run.cancel_at = "none"
    /\ pc[Tick] \in CancelPoints
    /\ LET p == pc[Tick]
           q == AfterCancel(p)
       IN  /\ pc' = [pc EXCEPT ![Tick] = q]
           /\ IF q = "idle"
              THEN /\ run' = [run EXCEPT !.cancel_at = p, !.status = "cancelled",
                                         !.phase = "none"]
                   /\ conn' = conn \ {Tick}
                   /\ lock' = Released(Tick)
                   /\ waiters' = SelectSeq(waiters, LAMBDA w : w # Tick)
                   /\ cmd' = [cmd EXCEPT ![Tick] = NoCmd]
                   /\ pending' = [pending EXCEPT ![Tick] = NoPending]
              ELSE /\ run' = [run EXCEPT !.cancel_at = p]
                   /\ pending' = [pending EXCEPT ![Tick] =
                                    IF q = "closing" THEN Exc("cancelled") ELSE @]
                   /\ UNCHANGED <<conn, lock, waiters, cmd>>
    /\ UNCHANGED <<pollVars, confVars, unitVars, api, last_probe>>

\* wait_closed returned in a cancelled _send_command: the gate is released
\* and CancelledError leaves the tick
CancelledClose ==
    /\ pc[Tick] = "closing"
    /\ pending[Tick].kind = "cancelled"
    /\ conn' = conn \ {Tick}
    /\ run' = [run EXCEPT !.status = "cancelled", !.phase = "none"]
    /\ Finish(Tick, Released(Tick))
    /\ UNCHANGED <<pollVars, confVars, unitVars, api, last_probe>>

\* ------------------------------------------------------------- environment
\* time passes between ticks
Advance ==
    /\ pc[Tick] = "idle"
    /\ since_energy_ts # NoTimestamp
    /\ since_energy_ts < MaxIdle
    /\ since_energy_ts' = since_energy_ts + 1
    /\ UNCHANGED <<was_online, offline_count, energy_kwh, confVars, unitVars, api, clientVars,
                   run, last_probe>>

\* ------------------------------------------------------------- control API
\* The commands entities send through the client: reboot_miner and
\* soft_shutdown (buttons), shutdown_hash_power and the three commands of
\* start_hashing (switch), set_voltage and set_frequency (numbers).
ControlCommands ==
    {CMD_REBOOT_MINER, CMD_SOFT_SHUTDOWN, CMD_SHUTDOWN_HASH_POWER, CMD_ENABLE_FAN,
     cmd_set_voltage(profile.voltage),
     cmd_set_frequency(profile.freqs, profile.hash_no)}

CallerStart(c) ==
    /\ pc[c] = "idle"
    /\ \E k \in ControlCommands : SendCommandEnter(c, k, lock)
    /\ UNCHANGED <<pollVars, confVars, unitVars, api, conn, run, last_probe>>

\* Variant: _send_command without the "finally" that closes the writer.
CallerDoneKeepsConnection(c) ==
    /\ Outcomes(c) # {}
    /\ conn' = conn
    /\ Finish(c, Released(c))
    /\ UNCHANGED <<pollVars, confVars, unitVars, api, run, last_probe>>

\* the call returns records[0] or raises to the entity's caller
CallerDone(c) ==
    /\ Outcomes(c) # {}
    /\ conn' = conn \ {c}
    /\ Finish(c, Released(c))
    /\ UNCHANGED <<pollVars, confVars, unitVars, api, run, last_probe>>

\* --------------------------------------- control API: validated commands
\* Arguments with which the validating entry points are called.
VoltageInputs == {VOLTAGE_MIN - 1, VOLTAGE_MIN, VOLTAGE_MAX, VOLTAGE_MAX + 1}
FrequencyInputs ==
    { <<300, 700, 500, 800>>, <<300, 500, 700, 900>>, <<325, 337, 350, 362>>,
      <<300, 500, 700, 901>>, <<325, 325, 350, 362>> }
HashNoInputs == {DEFAULT_HASH_NO, DEFAULT_HASH_NO + 1}
ProfileInputs ==
    { [freqs |-> DefaultFreqs, voltage |-> DEFAULT_VOLTAGE],
      [freqs |-> DefaultFreqs, voltage |-> VOLTAGE_MAX + 1],
      [freqs |-> <<350, 337, 350, 362>>, voltage |-> DEFAULT_VOLTAGE],
      [freqs |-> <<300, 500, 700, 901>>, voltage |-> DEFAULT_VOLTAGE] }

\* the call of caller c ends by raising ValueError before _send_command
Rejected(c, call) ==
    /\ api' = [api EXCEPT ![c] = [call EXCEPT !.result = "ValueError"]]
    /\ UNCHANGED <<lock, waiters, pc, cmd, pending>>

\* the call of caller c hands command k to _send_command
Issued(c, call, k) ==
    /\ api' = [api EXCEPT ![c] = [call EXCEPT !.sent = Append(@, k),
                                              !.result = "pending"]]
    /\ SendCommandEnter(c, k, Released(c))

\* await client.set_voltage(v)
CallSetVoltage(c) ==
    /\ pc[c] = "idle"
    /\ \E v \in VoltageInputs :
         LET call == [NoCall EXCEPT !.op = "set_voltage", !.voltage = v]
         IN  IF VoltageValid(v)
             THEN Issued(c, call, cmd_set_voltage(v))
             ELSE Rejected(c, call)
    /\ UNCHANGED <<pollVars, confVars, unitVars, conn, run, last_probe>>

\* await client.set_frequency(f1, f2, f3, f4, hash_no)
CallSetFrequency(c) ==
    /\ pc[c] = "idle"
    /\ \E f \in FrequencyInputs, h \in HashNoInputs :
         LET call == [NoCall EXCEPT !.op = "set_frequency", !.freqs = f,
                                   !.hash_no = h]
         IN  IF FrequencyValid(f)
             THEN Issued(c, call, cmd_set_frequency(f, h))
             ELSE Rejected(c, call)
    /\ UNCHANGED <<pollVars, confVars, unitVars, conn, run, last_probe>>

\* await client.reboot_miner() / soft_shutdown() / shutdown_hash_power():
\* the command is handed to _send_command without any check
DirectCommands ==
    [reboot_miner |-> CMD_REBOOT_MINER, soft_shutdown |-> CMD_SOFT_SHUTDOWN,
     shutdown_hash_power |-> CMD_SHUTDOWN_HASH_POWER]

CallControl(c) ==
    /\ pc[c] = "idle"
    /\ \E op \in DOMAIN DirectCommands :
         Issued(c, [NoCall EXCEPT !.op = op], DirectCommands[op])
    /\ UNCHANGED <<pollVars, confVars, unitVars, conn, run, last_probe>>

\* the entry points that send one command and return records[0]
DirectOps == {"set_voltage", "set_frequency"} \cup DOMAIN DirectCommands

\* Variant: a failed control command marks the device offline.
ApiCommandDoneMarksOffline(c) ==
    /\ api[c].op \in DirectOps
    /\ api[c].result = "pending"
    /\ \E o \in Outcomes(c) :
         /\ api' = [api EXCEPT ![c].result = IF Raises(o) THEN "raised" ELSE "returned"]
         /\ was_online' = IF Raises(o) THEN FALSE ELSE was_online
    /\ conn' = conn \ {c}
    /\ Finish(c, Released(c))
    /\ UNCHANGED <<offline_count, energy_kwh, since_energy_ts, confVars, unitVars, run, last_probe>>

\* a single-command entry point of caller c: _send_command returned or raised
ApiCommandDone(c) ==
    /\ api[c].op \in DirectOps
    /\ api[c].result = "pending"
    /\ \E o \in Outcomes(c) :
         api' = [api EXCEPT ![c].result = IF Raises(o) THEN "raised" ELSE "returned"]
    /\ conn' = conn \ {c}
    /\ Finish(c, Released(c))
    /\ UNCHANGED <<pollVars, confVars, unitVars, run, last_probe>>

\* await client.start_hashing(freq1.., voltage, hash_no): "await
\* self.enable_fan()" is its first statement
CallStartHashing(c) ==
    /\ pc[c] = "idle"
    /\ \E p \in ProfileInputs :
         Issued(c, [NoCall EXCEPT !.op = "start_hashing", !.voltage = p.voltage,
                                 !.freqs = p.freqs],
                CMD_ENABLE_FAN)
    /\ UNCHANGED <<pollVars, confVars, unitVars, conn, run, last_probe>>

\* Variant: start_hashing without its "except Exception": a failing step
\* raises to the caller.
StartHashingReturnsOrRaises(c, ok) ==
    /\ api' = [api EXCEPT ![c].result = IF ok = "False" THEN "raised" ELSE ok]
    /\ Finish(c, Released(c))

\* the call of caller c ends with start_hashing returning ok
StartHashingReturns(c, ok) ==
    /\ api' = [api EXCEPT ![c].result = ok]
    /\ Finish(c, Released(c))

\* start_hashing of caller c: the command in flight returned or raised; the
\* next statement validates and sends, any exception makes it return False
StartHashingStep(c) ==
    /\ api[c].op = "start_hashing"
    /\ api[c].result = "pending"
    /\ \E o \in Outcomes(c) :
         LET n == Len(api[c].sent)
         IN  IF Raises(o) THEN StartHashingReturns(c, "False")
             ELSE IF n = 1
             THEN IF VoltageValid(api[c].voltage)
                  THEN Issued(c, api[c], cmd_set_voltage(api[c].voltage))
                  ELSE StartHashingReturns(c, "False")
             ELSE IF n = 2
             THEN IF FrequencyValid(api[c].freqs)
                  THEN Issued(c, api[c],
                              cmd_set_frequency(api[c].freqs, api[c].hash_no))
                  ELSE StartHashingReturns(c, "False")
             ELSE StartHashingReturns(c, "True")
    /\ conn' = conn \ {c}
    /\ UNCHANGED <<pollVars, confVars, unitVars, run, last_probe>>

\* --------------------------------------------------- the configuration
\* entry.options before any options flow or number write
NoOptions == [k \in {} |-> 0]

\* a form of the options step as the schema passes it on
FlowInput(f, v, h, a) ==
    [freq1 |-> f[1], freq2 |-> f[2], freq3 |-> f[3], freq4 |-> f[4],
     voltage |-> v, hash_no |-> h, auto_start |-> a]

\* the schema's defaults, submitted unchanged
DefaultInput(a) == FlowInput(DefaultFreqs, DEFAULT_VOLTAGE, DEFAULT_HASH_NO, a)

\* _build_options(coordinator, **overrides) for the profile p the
\* coordinator returns: the four frequencies and the voltage only
OptionsOf(p) ==
    [freq1 |-> p.freqs[1], freq2 |-> p.freqs[2], freq3 |-> p.freqs[3],
     freq4 |-> p.freqs[4], voltage |-> p.voltage]

\* _get_option(key, default) on entry e
get_option(e, key, default) ==
    IF key \in DOMAIN e.options THEN e.options[key]
    ELSE IF key \in DOMAIN e.data THEN e.data[key]
    ELSE default

\* the coordinator's properties freq1..freq4, voltage, hash_no on entry e
ProfileOf(e) ==
    [freqs |-> << get_option(e, "freq1", DefaultFreqs[1]),
                  get_option(e, "freq2", DefaultFreqs[2]),
                  get_option(e, "freq3", DefaultFreqs[3]),
                  get_option(e, "freq4", DefaultFreqs[4]) >>,
     voltage |-> get_option(e, "voltage", DEFAULT_VOLTAGE),
     hash_no |-> get_option(e, "hash_no", DEFAULT_HASH_NO)]

\* the coordinator's property auto_start on entry e
AutoStartOf(e) == get_option(e, "auto_start", TRUE)

\* Forms the options schema lets through: every frequency in
\* VALID_MINER_FREQUENCIES, voltage in VOLTAGE_MIN..VOLTAGE_MAX, hash_no in
\* 0..4, auto_start a boolean.
FlowFrequencies ==
    {DefaultFreqs, <<300, 500, 700, 900>>, <<350, 337, 350, 362>>}
SetupInputs ==
    {FlowInput(f, DEFAULT_VOLTAGE, h, TRUE) :
       f \in FlowFrequencies, h \in {DEFAULT_HASH_NO, 4}}
OptionsInputs ==
    {FlowInput(f, v, h, a) :
       f \in FlowFrequencies, v \in {VOLTAGE_MIN, VOLTAGE_MAX},
       h \in {DEFAULT_HASH_NO, 4}, a \in BOOLEAN}

\* "if not (f1 < f2 < f3 < f4)" of both flows
FlowAscending(u) ==
    u.freq1 < u.freq2 /\ u.freq2 < u.freq3 /\ u.freq3 < u.freq4

\* the entry is e from now on: the coordinator's properties follow it
EntryBecomes(e) ==
    /\ entry' = e
    /\ profile' = ProfileOf(e)
    /\ auto_start' = AutoStartOf(e)

\* AvalonMinerConfigFlow.async_step_options: the form is shown again with an
\* error, or the entry is created with the form as its data
ConfigFlowSubmit ==
    /\ ~entry.created
    /\ \E u \in SetupInputs :
         IF FlowAscending(u)
         THEN EntryBecomes([created |-> TRUE, data |-> u, options |-> NoOptions])
         ELSE UNCHANGED <<confVars, entry>>
    /\ UNCHANGED <<pollVars, clientVars, run, last_probe, api,
                   wire, text, parsed, sensor>>

\* AvalonMinerOptionsFlow.async_step_init: the form is shown again with an
\* error, or the form becomes entry.options
OptionsFlowSubmit ==
    /\ entry.created
    /\ \E u \in OptionsInputs :
         IF FlowAscending(u)
         THEN EntryBecomes([entry EXCEPT !.options = u])
         ELSE UNCHANGED <<confVars, entry>>
    /\ UNCHANGED <<pollVars, clientVars, run, last_probe, api,
                   wire, text, parsed, sensor>>

\* Values of the number services, in tenths: the service lets through what
\* lies between the entity's native_min_value and native_max_value.
FrequencyValues == {3315, 3500, 12000}
VoltageValues == {300, 600}

\* int(value) of a non-negative float, the value given in tenths
IntOf(tenths) == tenths \div 10

\* the least abs(f - value) over the valid frequencies, searched from d on
RECURSIVE LeastDistance(_, _)
LeastDistance(value, d) ==
    IF value - d \in VALID_MINER_FREQUENCIES \/ value + d \in VALID_MINER_FREQUENCIES
    THEN d
    ELSE LeastDistance(value, d + 1)

\* _nearest_valid_freq(value): min() returns the first of the list among the
\* frequencies at the least distance, and the list is ascending
nearest_valid_freq(value) ==
    LET d == LeastDistance(value, 0)
    IN  IF value - d \in VALID_MINER_FREQUENCIES THEN value - d ELSE value + d

\* AvalonFrequencyZoneNumber.async_set_native_value for zone z: the snapped
\* value is stored in the options, then the four zones are sent with
\* set_frequency, whose exception is logged
NumberSetFrequency(c) ==
    /\ entry.created
    /\ pc[c] = "idle"
    /\ \E z \in 1..4, value \in FrequencyValues :
         LET freq == nearest_valid_freq(IntOf(value))
             new_options == OptionsOf([profile EXCEPT !.freqs[z] = freq])
             e == [entry EXCEPT !.options = new_options]
             f == ProfileOf(e).freqs
             h == ProfileOf(e).hash_no
             call == [NoCall EXCEPT !.op = "set_frequency", !.freqs = f,
                                    !.hash_no = h]
         IN  /\ EntryBecomes(e)
             /\ IF FrequencyValid(f)
                THEN Issued(c, call, cmd_set_frequency(f, h))
                ELSE Rejected(c, call)
    /\ UNCHANGED <<pollVars, conn, run, last_probe, wire, text, parsed, sensor>>

\* AvalonVoltageLevelNumber.async_set_native_value: the value is stored in
\* the options, then sent with set_voltage, whose exception is logged
NumberSetVoltage(c) ==
    /\ entry.created
    /\ pc[c] = "idle"
    /\ \E value \in VoltageValues :
         LET voltage == IntOf(value)
             new_options == OptionsOf([profile EXCEPT !.voltage = voltage])
             call == [NoCall EXCEPT !.op = "set_voltage", !.voltage = voltage]
         IN  /\ EntryBecomes([entry EXCEPT !.options = new_options])
             /\ IF VoltageValid(voltage)
                THEN Issued(c, call, cmd_set_voltage(voltage))
                ELSE Rejected(c, call)
    /\ UNCHANGED <<pollVars, conn, run, last_probe, wire, text, parsed, sensor>>

\* ------------------------------------------------ one exchange on the wire
\* Bytes a device sends: a letter, a blank and a byte that is not valid UTF-8.
Bytes == {"S", " ", "xFF"}
MaxSegments == 2
MaxSegmentLen == 2
\* the limit of the one read, reader.read(65536), scaled to the segments
ReadCap == 3

Segments == UNION {[1..n -> Bytes] : n \in 1..MaxSegmentLen}
Segmentations == UNION {[1..n -> Segments] : n \in 0..MaxSegments}

\* all segments of s, in order
RECURSIVE Concat(_, _)
Concat(s, n) == IF n = 0 THEN <<>> ELSE Concat(s, n - 1) \o s[n]

\* bytes.decode(errors="replace"): an invalid byte becomes U+FFFD
DecodeByte(b) == IF b = "xFF" THEN "U+FFFD" ELSE b
decode(raw) == [i \in 1..Len(raw) |-> DecodeByte(raw[i])]

\* str.strip(): leading and trailing whitespace removed
IsSpace(ch) == ch = " "
RECURSIVE lstrip(_)
lstrip(s) == IF s # <<>> /\ IsSpace(Head(s)) THEN lstrip(Tail(s)) ELSE s
RECURSIVE rstrip(_)
rstrip(s) ==
    IF s # <<>> /\ IsSpace(s[Len(s)]) THEN rstrip(SubSeq(s, 1, Len(s) - 1))
    ELSE s
strip(s) == rstrip(lstrip(s))

\* Variant: _send_command without "if not text: raise ValueError": the
\* parser's result for an empty text is returned.
AfterReadNoEmptyCheck(raw) == Raw(strip(decode(raw)))

\* what _send_command does with the bytes of the read: ValueError for an
\* empty text, and otherwise the records parsed from the text
AfterRead(raw) ==
    LET txt == strip(decode(raw))
    IN  IF txt = <<>> THEN Exc("empty") ELSE Raw(txt)

\* the device sends its next segment, which arrives in the stream reader
DeviceSends ==
    /\ wire.phase = "reading"
    /\ wire.segs # <<>>
    /\ wire' = [wire EXCEPT !.buf = @ \o Head(wire.segs),
                            !.segs = Tail(@),
                            !.arrived = @ + 1]
    /\ UNCHANGED <<pollVars, confVars, clientVars, run, last_probe, api,
                   text, parsed, sensor, entry>>

\* the device has sent everything and closes the connection
DeviceCloses ==
    /\ wire.phase = "reading"
    /\ wire.segs = <<>>
    /\ ~wire.eof
    /\ wire' = [wire EXCEPT !.eof = TRUE]
    /\ UNCHANGED <<pollVars, confVars, clientVars, run, last_probe, api,
                   text, parsed, sensor, entry>>

\* "raw = await reader.read(65536)" returns: StreamReader.read(n) waits
\* until the buffer holds at least one byte or EOF was received and returns
\* at most n of the buffered bytes; the writer is closed and the text checked
ReadReturns ==
    /\ wire.phase = "reading"
    /\ wire.buf # <<>> \/ wire.eof
    /\ LET n == IF Len(wire.buf) < ReadCap THEN Len(wire.buf) ELSE ReadCap
           raw == SubSeq(wire.buf, 1, n)
       IN  wire' = [wire EXCEPT !.phase = "ended", !.raw = raw,
                                !.outcome = AfterRead(raw)]
    /\ UNCHANGED <<pollVars, confVars, clientVars, run, last_probe, api,
                   text, parsed, sensor, entry>>

\* nothing arrived within TCP_COMMAND_TIMEOUT
ReadTimesOut ==
    /\ wire.phase = "reading"
    /\ wire.buf = <<>> /\ ~wire.eof
    /\ wire' = [wire EXCEPT !.phase = "ended", !.outcome = Exc("timeout")]
    /\ UNCHANGED <<pollVars, confVars, clientVars, run, last_probe, api,
                   text, parsed, sensor, entry>>

\* fetch_full_snapshot's try/except around the sub-query: the value the query
\* function extracts from the records is assigned, or the warning is logged
QueryApplied ==
    /\ wire.phase = "ended"
    /\ \E v \in Responses(wire.cmd) :
         LET o == IF Raises(wire.outcome) THEN wire.outcome ELSE Raw(v)
         IN  wire' = [wire EXCEPT !.phase = "applied",
                                  !.data = ApplyResponse(@, wire.cmd, o),
                                  !.resp = Contribution(o)]
    /\ UNCHANGED <<pollVars, confVars, clientVars, run, last_probe, api,
                   text, parsed, sensor, entry>>

\* ------------------------------------------ the all-time best share sensor
MaxShare == 4
\* coordinator.data as the sensor sees it: None (no tick has returned yet), the
\* offline stub (best_share at its default 0), or an online snapshot
NoData == [present |-> FALSE, online |-> FALSE, best_share |-> 0]
CoordinatorData ==
    {NoData, [present |-> TRUE, online |-> FALSE, best_share |-> 0]}
    \cup {[present |-> TRUE, online |-> TRUE, best_share |-> b] : b \in 0..MaxShare}

\* Variant: the record follows the session value of every online snapshot.
RecordAfterUpdateFollows(all_time_best, data) ==
    IF data.present /\ data.online THEN data.best_share ELSE all_time_best

\* _all_time_best after _handle_coordinator_update: "if data and data.online
\* and data.best_share > self._all_time_best"
RecordAfterUpdate(all_time_best, data) ==
    IF data.present /\ data.online /\ data.best_share > all_time_best
    THEN data.best_share
    ELSE all_time_best

\* the coordinator publishes data and calls the sensor's listener
CoordinatorUpdate ==
    /\ sensor.phase = "listening"
    /\ \E d \in CoordinatorData :
         sensor' = [sensor EXCEPT
                      !.data = d,
                      !.all_time_best = RecordAfterUpdate(@, d),
                      !.seen = IF d.present /\ d.online
                               THEN @ \cup {d.best_share} ELSE @]
    /\ UNCHANGED <<pollVars, confVars, clientVars, run, last_probe, api,
                   wire, text, parsed, entry>>

\* ------------------------------------------ the per-hashboard sensors
MaxUpdates == 3
\* data.hashboards of a snapshot: the board ids
BoardLists == {<<>>, <<0>>, <<0, 1>>}
\* coordinator.data as the platform's listener sees it after an update: the
\* offline stub or an online snapshot with its boards
PlatformData ==
    {[present |-> TRUE, online |-> FALSE, hashboards |-> <<>>]}
    \cup {[present |-> TRUE, online |-> TRUE, hashboards |-> b] : b \in BoardLists}

\* the entities built for one board: the four zone frequencies and the hashrate
BoardSensors(board_id) ==
    << [board |-> board_id, sensor |-> "freq0"],
       [board |-> board_id, sensor |-> "freq1"],
       [board |-> board_id, sensor |-> "freq2"],
       [board |-> board_id, sensor |-> "freq3"],
       [board |-> board_id, sensor |-> "hashrate"] >>

\* board_entities after the loop over the first n boards
RECURSIVE board_entities(_, _)
board_entities(hashboards, n) ==
    IF n = 0 THEN <<>>
    ELSE board_entities(hashboards, n - 1) \o BoardSensors(hashboards[n])

\* the body of _add_hashboard_sensors on the calls of async_add_entities made
\* so far: nothing without an online snapshot, else one more call
add_hashboard_sensors(added, data) ==
    IF ~data.present \/ ~data.online THEN added
    ELSE Append(added, board_entities(data.hashboards, Len(data.hashboards)))

\* async_setup_entry of the sensor platform: the listener is registered with
\* coordinator.async_add_listener and the fixed entities are added; the
\* coordinator holds the data of its first refresh
PlatformSetup ==
    /\ sensor.phase = "none"
    /\ \E d \in PlatformData :
         sensor' = [phase |-> "platform", listeners |-> <<"_add_hashboard_sensors">>,
                    data |-> d, log |-> <<>>, body_ran |-> <<>>, added |-> <<>>]
    /\ UNCHANGED <<pollVars, confVars, clientVars, run, last_probe, api,
                   wire, text, parsed, entry>>

\* The coordinator publishes data and calls every registered listener. The
\* listener is a coroutine function: calling it returns a coroutine, whose
\* body runs only if the caller schedules it, which is not in this
\* repository's code. Nothing removes the listener.
PlatformUpdate ==
    /\ sensor.phase = "platform"
    /\ Len(sensor.log) < MaxUpdates
    /\ \E d \in PlatformData, scheduled \in BOOLEAN :
         sensor' = [sensor EXCEPT
                      !.data = d,
                      !.log = Append(@, d),
                      !.body_ran = Append(@, scheduled /\ sensor.listeners # <<>>),
                      !.added = IF scheduled /\ sensor.listeners # <<>>
                                THEN add_hashboard_sensors(@, d) ELSE @]
    /\ UNCHANGED <<pollVars, confVars, clientVars, run, last_probe, api,
                   wire, text, parsed, entry>>

\* ------------------------------------------------------------- the parser
\* Text is a sequence of characters. The characters a response is made of
\* here: a letter, the token separators and the brackets.
Alphabet == {"k", "=", ",", "[", "]"}
MaxText == 4
Texts == UNION {[1..n -> Alphabet] : n \in 0..MaxText}

\* bracket_count after the scanned character
CountBracket(bracket_count, char) ==
    IF char = "[" THEN bracket_count + 1
    ELSE IF char = "]" THEN bracket_count - 1
    ELSE bracket_count

\* Variant: a delimiter splits whenever the counter is not positive.
SplitsHereNonPositive(char, delimiter, bracket_count) ==
    char = delimiter /\ bracket_count <= 0

\* "if char == delimiter and bracket_count == 0"
SplitsHere(char, delimiter, bracket_count) ==
    char = delimiter /\ bracket_count = 0

\* one pass of the loop "for char in text" over the scan state
SplitStep(st, char, delimiter) ==
    LET bc == CountBracket(st.bracket_count, char)
    IN  IF SplitsHere(char, delimiter, bc)
        THEN [parts |-> Append(st.parts, st.current), bracket_count |-> bc,
              current |-> <<>>]
        ELSE [parts |-> st.parts, bracket_count |-> bc,
              current |-> Append(st.current, char)]

\* the scan state after the first n characters of txt
RECURSIVE SplitScan(_, _, _)
SplitScan(txt, n, delimiter) ==
    IF n = 0 THEN [parts |-> <<>>, bracket_count |-> 0, current |-> <<>>]
    ELSE CHOOSE r \in {SplitStep(st, txt[n], delimiter) :
                        st \in {SplitScan(txt, n - 1, delimiter)}} : TRUE

\* _split_considering_delimiters(text, delimiter)
split_considering_delimiters(txt, delimiter) ==
    IF txt = <<>> THEN <<>>
    ELSE LET st == SplitScan(txt, Len(txt), delimiter)
         IN  IF st.current # <<>> THEN Append(st.parts, st.current)
             ELSE st.parts

\* ------------------------------------------------------ scalar coercion
\* (Below, an intermediate result that is used more than once is bound as
\* the one element of a set, "CHOOSE r \in {e(x) : x \in {f}} : TRUE", so
\* that it is computed once.)
\* Values of the parsed record: a tag and the value under it.
IntVal(n) == [type |-> "int", val |-> n]
FloatVal(s) == [type |-> "float", val |-> s]
BoolVal(b) == [type |-> "bool", val |-> b]
StrVal(s) == [type |-> "str", val |-> s]
ListVal(s) == [type |-> "list", val |-> s]
MapVal(f) == [type |-> "map", val |-> f]
\* the ValueError raised by int() in _coerce
CoerceError == [type |-> "ValueError", val |-> <<>>]
IsError(v) == v.type = "ValueError"

Digits == <<"0", "1", "2", "3", "4", "5", "6", "7", "8", "9">>
IsDigit(ch) == \E i \in 1..10 : Digits[i] = ch
DigitValue(ch) == (CHOOSE i \in 1..10 : Digits[i] = ch) - 1
IsSign(ch) == ch \in {"+", "-"}

UpperCase == <<"A", "E", "F", "I", "L", "N", "R", "S", "T", "U", "Y">>
LowerCase == <<"a", "e", "f", "i", "l", "n", "r", "s", "t", "u", "y">>
\* str.lower() on the letters that matter to the literals below
lower_char(ch) ==
    IF \E i \in 1..Len(UpperCase) : UpperCase[i] = ch
    THEN LowerCase[CHOOSE i \in 1..Len(UpperCase) : UpperCase[i] = ch]
    ELSE ch
lower(s) == [i \in 1..Len(s) |-> lower_char(s[i])]

\* the text without a leading sign
Unsigned(s) == IF s # <<>> /\ IsSign(Head(s)) THEN Tail(s) ELSE s

\* One step of the scan of a decimal literal: digits, with single
\* underscores between digits, an optional point and an optional exponent.
NumberStep(st, ch) ==
    IF st = "start" THEN (IF IsDigit(ch) THEN "int"
                          ELSE IF ch = "." THEN "point" ELSE "bad")
    ELSE IF st = "int" THEN (IF IsDigit(ch) THEN "int"
                             ELSE IF ch = "_" THEN "int_"
                             ELSE IF ch = "." THEN "int."
                             ELSE IF ch \in {"e", "E"} THEN "e" ELSE "bad")
    ELSE IF st = "int_" THEN (IF IsDigit(ch) THEN "int" ELSE "bad")
    ELSE IF st = "point" THEN (IF IsDigit(ch) THEN "frac" ELSE "bad")
    ELSE IF st = "int." THEN (IF IsDigit(ch) THEN "frac"
                              ELSE IF ch \in {"e", "E"} THEN "e" ELSE "bad")
    ELSE IF st = "frac" THEN (IF IsDigit(ch) THEN "frac"
                              ELSE IF ch = "_" THEN "frac_"
                              ELSE IF ch \in {"e", "E"} THEN "e" ELSE "bad")
    ELSE IF st = "frac_" THEN (IF IsDigit(ch) THEN "frac" ELSE "bad")
    ELSE IF st = "e" THEN (IF IsDigit(ch) THEN "exp"
                           ELSE IF IsSign(ch) THEN "esign" ELSE "bad")
    ELSE IF st = "esign" THEN (IF IsDigit(ch) THEN "exp" ELSE "bad")
    ELSE IF st = "exp" THEN (IF IsDigit(ch) THEN "exp"
                             ELSE IF ch = "_" THEN "exp_" ELSE "bad")
    ELSE IF st = "exp_" THEN (IF IsDigit(ch) THEN "exp" ELSE "bad")
    ELSE "bad"

RECURSIVE NumberScan(_, _)
NumberScan(s, n) ==
    IF n = 0 THEN "start"
    ELSE CHOOSE r \in {NumberStep(st, s[n]) : st \in {NumberScan(s, n - 1)}} : TRUE

\* the literals float() accepts besides the decimal ones
FloatWords ==
    { <<"i", "n", "f">>, <<"n", "a", "n">>,
      <<"i", "n", "f", "i", "n", "i", "t", "y">> }

\* float(value) does not raise: surrounding whitespace and one sign are
\* allowed around a decimal literal, inf, infinity or nan
float_accepts(value) ==
    LET u == Unsigned(strip(value))
    IN  \/ lower(u) \in FloatWords
        \/ NumberScan(u, Len(u)) \in {"int", "int.", "frac", "exp"}

\* int(value) does not raise: whitespace, one sign, digits
int_accepts(value) ==
    LET u == Unsigned(strip(value))
    IN  NumberScan(u, Len(u)) = "int"

\* _is_numeric(value)
is_numeric(value) == float_accepts(value)

\* _is_bool_string(value)
is_bool_string(value) ==
    lower(value) \in { <<"t", "r", "u", "e">>, <<"f", "a", "l", "s", "e">> }

\* the number the digits of s denote, underscores skipped
RECURSIVE DigitsValue(_, _)
DigitsValue(s, n) ==
    IF n = 0 THEN 0
    ELSE IF IsDigit(s[n]) THEN 10 * DigitsValue(s, n - 1) + DigitValue(s[n])
    ELSE DigitsValue(s, n - 1)

\* int(value) where it does not raise
int_of(value) ==
    LET t == strip(value)
        u == Unsigned(t)
        v == DigitsValue(u, Len(u))
    IN  IF t # <<>> /\ Head(t) = "-" THEN 0 - v ELSE v

\* whether the text contains the character
Contains(s, ch) == \E i \in 1..Len(s) : s[i] = ch

\* _coerce(value): "float(value) if '.' in value else int(value)" raises
\* ValueError where float() takes the text and int() does not
coerce(value) ==
    IF is_numeric(value)
    THEN IF Contains(value, ".") THEN FloatVal(strip(value))
         ELSE IF int_accepts(value) THEN IntVal(int_of(value))
         ELSE CoerceError
    ELSE IF is_bool_string(value)
    THEN BoolVal(lower(value) = <<"t", "r", "u", "e">>)
    ELSE StrVal(value)

\* What one comma-separated token adds to the record: nothing, or the pair of
\* its key and its raw value (from which the stored value is computed).
TokenEntry(subpart) ==
    LET tokens == split_considering_delimiters(subpart, "=")
    IN  IF Len(tokens) < 2 THEN <<>>
        ELSE IF tokens[2] = <<>> THEN <<>>
        ELSE <<tokens[1], tokens[2]>>

\* one pass of the loop of _extract_inside_brackets
ExtractStep(st, char) ==
    IF st.done THEN st
    ELSE IF char = "[" THEN [st EXCEPT !.key = st.current, !.current = <<>>]
    ELSE IF char = "]" THEN [st EXCEPT !.value = st.current, !.done = TRUE]
    ELSE [st EXCEPT !.current = Append(@, char)]

RECURSIVE ExtractScan(_, _)
ExtractScan(txt, n) ==
    IF n = 0 THEN [key |-> <<>>, value |-> <<>>, current |-> <<>>, done |-> FALSE]
    ELSE CHOOSE r \in {ExtractStep(st, txt[n]) :
                        st \in {ExtractScan(txt, n - 1)}} : TRUE

\* _extract_inside_brackets(text): (key, value) of a "key[value]" token
extract_inside_brackets(txt) ==
    LET st == ExtractScan(txt, Len(txt)) IN <<st.key, st.value>>

\* the position of the first sep in s, 0 if there is none
FirstAt(s, sep) ==
    IF Contains(s, sep)
    THEN CHOOSE i \in 1..Len(s) : s[i] = sep /\ \A j \in 1..(i - 1) : s[j] # sep
    ELSE 0

\* str.split(sep): every separator splits, empty pieces are kept
RECURSIVE split(_, _)
split(s, sep) ==
    LET i == FirstAt(s, sep)
    IN  IF i = 0 THEN <<s>>
        ELSE <<SubSeq(s, 1, i - 1)>> \o split(SubSeq(s, i + 1, Len(s)), sep)

\* sep.join(parts)
RECURSIVE join(_, _)
join(parts, sep) ==
    IF parts = <<>> THEN <<>>
    ELSE IF Len(parts) = 1 THEN parts[1]
    ELSE parts[1] \o <<sep>> \o join(Tail(parts), sep)

\* "[coerce(i) for i in inner_parts if i]" over the first n pieces
RECURSIVE CoerceItems(_, _)
CoerceItems(inner_parts, n) ==
    IF n = 0 THEN <<>>
    ELSE IF inner_parts[n] = <<>> THEN CoerceItems(inner_parts, n - 1)
    ELSE Append(CoerceItems(inner_parts, n - 1), coerce(inner_parts[n]))

\* whether a coercion among the items raised
AnyError(items) == \E i \in 1..Len(items) : IsError(items[i])

\* what one "key[value]" piece puts under its key: nothing, a list or a scalar
\* what the text v inside the brackets of key k becomes, given its pieces
InnerValue(k, v, inner_parts) ==
    IF Len(inner_parts) > 1
    THEN CHOOSE r \in {IF AnyError(items) THEN <<k, CoerceError>>
                       ELSE <<k, ListVal(items)>> :
                         items \in {CoerceItems(inner_parts, Len(inner_parts))}} : TRUE
    ELSE <<k, coerce(v)>>
NestedEntry(vp) ==
    CHOOSE r \in {IF kv[2] = <<>> THEN <<>>
                  ELSE CHOOSE e \in {InnerValue(kv[1], kv[2], inner_parts) :
                                       inner_parts \in {split(kv[2], " ")}} : TRUE :
                    kv \in {extract_inside_brackets(vp)}} : TRUE

\* the map "nested" after the first n pieces, or the error raised on the way
RECURSIVE NestedAfter(_, _)
NestedAfter(value_parts, n) ==
    IF n = 0 THEN MapVal(<<>>)
    ELSE CHOOSE r \in
           {IF IsError(m) THEN m
            ELSE IF e = <<>> THEN m
            ELSE IF IsError(e[2]) THEN CoerceError
            ELSE MapVal([x \in DOMAIN m.val \cup {e[1]} |->
                           IF x = e[1] THEN e[2] ELSE m.val[x]]) :
              m \in {NestedAfter(value_parts, n - 1)},
              e \in {NestedEntry(value_parts[n])}} : TRUE

\* whether a piece contains a bracket
HasBracket(vp) == Contains(vp, "[") \/ Contains(vp, "]")

\* The value parse_miner_response stores for a raw value: nothing, the
\* coerced scalar, the space-joined string, or the nested map.
StoredValue(raw_value) ==
    CHOOSE r \in
      {IF Len(value_parts) = 1 THEN <<coerce(raw_value)>>
       ELSE IF Len(value_parts) = 0 THEN <<>>
       ELSE IF \A i \in 1..Len(value_parts) : ~HasBracket(value_parts[i])
       THEN <<StrVal(join(value_parts, " "))>>
       ELSE <<NestedAfter(value_parts, Len(value_parts))>> :
         value_parts \in {split_considering_delimiters(raw_value, " ")}} : TRUE

\* The record after the first n tokens, and whether a coercion raised on
\* the way: a later token replaces the entry of an equal key.
RECURSIVE RecordAfter(_, _)
RecordAfter(subparts, n) ==
    IF n = 0 THEN [raised |-> FALSE, record |-> <<>>]
    ELSE CHOOSE s \in
           {CHOOSE t \in
              {IF r.raised \/ v = <<>> THEN r
               ELSE IF IsError(v[1]) THEN [r EXCEPT !.raised = TRUE]
               ELSE [r EXCEPT !.record =
                       [x \in DOMAIN r.record \cup {e[1]} |->
                          IF x = e[1] THEN v[1] ELSE r.record[x]]] :
                 v \in {IF e = <<>> THEN <<>> ELSE StoredValue(e[2])}} : TRUE :
              r \in {RecordAfter(subparts, n - 1)},
              e \in {TokenEntry(subparts[n])}} : TRUE

\* the record parse_miner_response builds for one "|"-separated part
ParseRecord(part) ==
    CHOOSE r \in {RecordAfter(subparts, Len(subparts)) :
                    subparts \in {split_considering_delimiters(part, ",")}} : TRUE

\* parse_miner_response(text) for a text of one part: the list of its one
\* record, or ValueError
parse_miner_response(txt) ==
    CHOOSE p \in {IF r.raised THEN [raised |-> TRUE, records |-> <<>>]
                  ELSE [raised |-> FALSE, records |-> <<r.record>>] :
                    r \in {ParseRecord(txt)}} : TRUE

\* the parser is run on the text
ParseText ==
    /\ ~parsed.done
    /\ LET p == parse_miner_response(text)
       IN  parsed' = [done |-> TRUE,
                      parts |-> split_considering_delimiters(text, ","),
                      raised |-> p.raised,
                      records |-> p.records]
    /\ UNCHANGED <<pollVars, confVars, clientVars, run, last_probe, api,
                   wire, text, sensor, entry>>

\* ------------------------------------------------ the electrical state
\* 10 to the power n
RECURSIVE Pow10(_)
Pow10(n) == IF n = 0 THEN 1 ELSE 10 * Pow10(n - 1)

\* the number of characters of s after its point, 0 without a point
FractionLen(s) ==
    LET i == FirstAt(s, ".")
    IN  IF i = 0 THEN 0
        ELSE Cardinality({j \in (i + 1)..Len(s) : IsDigit(s[j])})

\* int(float(s)) for a decimal text s that float() takes: the value truncated
\* toward zero
trunc_of_float(s) ==
    LET t == strip(s)
        u == lower(Unsigned(t))
        p == FirstAt(u, "e")
        mantissa == IF p = 0 THEN u ELSE SubSeq(u, 1, p - 1)
        exponent == IF p = 0 THEN 0 ELSE int_of(SubSeq(u, p + 1, Len(u)))
        shift == exponent - FractionLen(mantissa)
        digits == DigitsValue(mantissa, Len(mantissa))
        v == IF shift >= 0 THEN digits * Pow10(shift)
             ELSE digits \div Pow10(0 - shift)
    IN  IF t # <<>> /\ Head(t) = "-" THEN 0 - v ELSE v

\* int(v) of a parsed value, or the exception it raises
int_value(v) ==
    IF v.type = "int" THEN [raised |-> "none", val |-> v.val]
    ELSE IF v.type = "bool" THEN [raised |-> "none", val |-> IF v.val THEN 1 ELSE 0]
    ELSE IF v.type = "float" THEN [raised |-> "none", val |-> trunc_of_float(v.val)]
    ELSE IF v.type = "str" THEN
         (IF int_accepts(v.val) THEN [raised |-> "none", val |-> int_of(v.val)]
          ELSE [raised |-> "ValueError", val |-> 0])
    ELSE [raised |-> "TypeError", val |-> 0]

\* "[int(v) for v in items]": the integers, or the first exception
RECURSIVE IntList(_, _)
IntList(items, n) ==
    IF n = 0 THEN [raised |-> "none", ps |-> <<>>]
    ELSE CHOOSE s \in
           {IF r.raised # "none" THEN r
            ELSE IF x.raised # "none" THEN [raised |-> x.raised, ps |-> <<>>]
            ELSE [raised |-> "none", ps |-> Append(r.ps, x.val)] :
              r \in {IntList(items, n - 1)}, x \in {int_value(items[n])}} : TRUE

\* the characters of a string as strings of one character
Characters(s) == [i \in 1..Len(s) |-> StrVal(<<s[i]>>)]

\* "for v in msg.get('PS', [])": a list gives its items, a string its
\* characters, any other scalar is not iterable
IterateInts(v) ==
    IF v.type = "list" THEN IntList(v.val, Len(v.val))
    ELSE IF v.type = "str" THEN IntList(Characters(v.val), Len(v.val))
    ELSE [raised |-> "TypeError", ps |-> <<>>]

\* Where re.search(r"PS\[([^\]]+)\]", msg) matches: "PS[" at i, at least one
\* character that is not "]", and then "]"
MatchesAt(msg, i) ==
    /\ i + 4 <= Len(msg)
    /\ msg[i] = "P" /\ msg[i + 1] = "S" /\ msg[i + 2] = "["
    /\ msg[i + 3] # "]"
    /\ \E j \in (i + 4)..Len(msg) : msg[j] = "]"

\* group(1) of the leftmost match
Group1(msg) ==
    LET i == CHOOSE k \in 1..Len(msg) :
               MatchesAt(msg, k) /\ \A l \in 1..(k - 1) : ~MatchesAt(msg, l)
        j == CHOOSE k \in (i + 4)..Len(msg) :
               msg[k] = "]" /\ \A l \in (i + 4)..(k - 1) : msg[l] # "]"
    IN  SubSeq(msg, i + 3, j - 1)

\* str.split(): the pieces between runs of whitespace
RECURSIVE NonEmpty(_)
NonEmpty(parts) ==
    IF parts = <<>> THEN <<>>
    ELSE IF Head(parts) = <<>> THEN NonEmpty(Tail(parts))
    ELSE <<Head(parts)>> \o NonEmpty(Tail(parts))
split_whitespace(s) == NonEmpty(split(s, " "))

\* the list ps of query_hash_power_state for the field Msg
PowerList(msg) ==
    IF msg.type = "map"
    THEN IF <<"P", "S">> \in DOMAIN msg.val
         THEN IterateInts(msg.val[<<"P", "S">>])
         ELSE [raised |-> "none", ps |-> <<>>]
    ELSE IF msg.type = "str"
    THEN IF \E i \in 1..Len(msg.val) : MatchesAt(msg.val, i)
         THEN LET xs == split_whitespace(Group1(msg.val))
              IN  IntList([i \in 1..Len(xs) |-> StrVal(xs[i])], Len(xs))
         ELSE [raised |-> "none", ps |-> <<>>]
    ELSE [raised |-> "none", ps |-> <<>>]

\* "ps[i] if len(ps) > i else 0", positions counted from 1 here
At(ps, i) == IF Len(ps) >= i THEN ps[i] ELSE 0

\* HashPowerState(...) built from the list
HashPowerState(ps) ==
    [raised |-> "none", error |-> At(ps, 1), controller_voltage |-> At(ps, 2),
     hash_board_voltage |-> At(ps, 3), output_current |-> At(ps, 4),
     output_power |-> At(ps, 5), voltage_setting |-> At(ps, 6)]

\* the call raised exception e
PowerRaised(e) ==
    [raised |-> e, error |-> 0, controller_voltage |-> 0,
     hash_board_voltage |-> 0, output_current |-> 0, output_power |-> 0,
     voltage_setting |-> 0]

MsgKey == <<"M", "s", "g">>

\* query_hash_power_state() when the device answers with txt
\* the result for the first record raw: "msg = raw.get('Msg', {})" onward
PowerOfRecord(raw) ==
    CHOOSE s \in {IF l.raised # "none" THEN PowerRaised(l.raised)
                  ELSE HashPowerState(l.ps) :
                    l \in {PowerList(IF MsgKey \in DOMAIN raw THEN raw[MsgKey]
                                     ELSE MapVal(<<>>))}} : TRUE
query_hash_power_state(txt) ==
    CHOOSE s \in {IF p.raised THEN PowerRaised("ValueError")
                  ELSE PowerOfRecord(IF p.records # <<>> THEN p.records[1]
                                     ELSE <<>>) :
                    p \in {parse_miner_response(txt)}} : TRUE

\* Responses to the electrical-state command: Msg holds the token PS[...]
\* alone or after other text, with up to MaxPS integers in it or up to two
\* items of any kind; or Msg holds no PS token; or there is no Msg.
MaxPS == 6
PlainItems == { <<"7">>, <<"1", "2">> }
OddItems == { <<"7">>, <<"1", ".", "5">>, <<"t", "r", "u", "e">>, <<"x">> }
PowerItems ==
    UNION {[1..n -> PlainItems] : n \in 0..MaxPS}
    \cup UNION {[1..n -> OddItems] : n \in 0..2}
MsgPrefixes == { <<>>, <<"x", " ">> }
PowerToken(items) == <<"P", "S", "[">> \o join(items, " ") \o <<"]">>
PowerText(prefix, items) == MsgKey \o <<"=">> \o prefix \o PowerToken(items)
OtherTexts ==
    { MsgKey \o <<"=", "x">>, MsgKey \o <<"=", "x", " ", "y">>,
      MsgKey \o <<"=", "7">>, <<"k", "=", "x">> }

\* _send_command returned or raised for the electrical-state command, and
\* query_hash_power_state builds its result
QueryHashPowerState ==
    /\ wire.phase = "responded"
    /\ ~parsed.done
    /\ LET p == parse_miner_response(text)
       IN  parsed' = [done |-> TRUE,
                      parts |-> split_considering_delimiters(text, ","),
                      raised |-> p.raised,
                      records |-> p.records,
                      state |-> query_hash_power_state(text)]
    /\ UNCHANGED <<pollVars, confVars, clientVars, run, last_probe, api,
                   wire, text, sensor, entry>>

\* ------------------------------------------------------------------- specs
\* The profile the configuration store holds: the defaults, or zone 1 raised
\* above zone 2 by a number-entity write.
ProfileChoices ==
    { [freqs |-> DefaultFreqs, voltage |-> DEFAULT_VOLTAGE, hash_no |-> DEFAULT_HASH_NO],
      [freqs |-> <<350, 337, 350, 362>>, voltage |-> DEFAULT_VOLTAGE,
       hash_no |-> DEFAULT_HASH_NO] }

\* coordinator and client after construction
InitCore ==
    /\ was_online = FALSE
    /\ offline_count = 0
    /\ energy_kwh = 0
    /\ since_energy_ts = NoTimestamp
    /\ auto_start \in BOOLEAN
    /\ profile \in ProfileChoices
    /\ lock = Free
    /\ waiters = <<>>
    /\ conn = {}
    /\ pc = [t \in Tasks |-> "idle"]
    /\ cmd = [t \in Tasks |-> NoCmd]
    /\ pending = [t \in Tasks |-> NoPending]
    /\ run = NoRun
    /\ last_probe = "none"
    /\ api = [c \in Callers |-> NoCall]
    /\ entry = [created |-> TRUE,
                data |-> DefaultInput(auto_start),
                options |-> IF profile.freqs = DefaultFreqs THEN NoOptions
                            ELSE OptionsOf(profile)]

Init ==
    /\ InitCore
    /\ wire = NoWire
    /\ text = <<>>
    /\ parsed = NoParse
    /\ sensor = NoSensor

\* the polling task alone
Next ==
    \/ TickStart
    \/ ProbeFail
    \/ ProbeConnect
    \/ ProbeClosed
    \/ ConnectOk(Tick)
    \/ IoDone(Tick)
    \/ SeqSummaryDone
    \/ SeqFanDone
    \/ SeqVoltDone
    \/ SeqFreqDone
    \/ SleepDone
    \/ SnapQueryDone
    \/ SnapshotAssembled
    \/ Cancel
    \/ CancelledClose
    \/ Advance

Spec == Init /\ [][Next]_vars

\* What a started tick does on its own: the event loop resumes it whenever
\* an await of it completes, every connect and read is bounded by
\* TCP_COMMAND_TIMEOUT and every sleep ends.
TickProgress ==
    \/ ProbeFail
    \/ ProbeConnect
    \/ ProbeClosed
    \/ ConnectOk(Tick)
    \/ IoDone(Tick)
    \/ SeqSummaryDone
    \/ SeqFanDone
    \/ SeqVoltDone
    \/ SeqFreqDone
    \/ SleepDone
    \/ SnapQueryDone
    \/ SnapshotAssembled
    \/ CancelledClose

SpecLive == Spec /\ WF_vars(TickProgress)

\* The polling task together with the control-API callers on the same
\* client, for the default configuration (auto-start set, default profile).
InitGate ==
    /\ Init
    /\ auto_start
    /\ profile.freqs = DefaultFreqs

NextGate ==
    \/ TickStart
    \/ ProbeFail
    \/ ProbeConnect
    \/ ProbeClosed
    \/ SeqSummaryDone
    \/ SeqFanDone
    \/ SeqVoltDone
    \/ SeqFreqDone
    \/ SleepDone
    \/ SnapQueryDone
    \/ SnapshotAssembled
    \/ Cancel
    \/ CancelledClose
    \/ \E t \in Tasks : LockGranted(t)
    \/ \E t \in Tasks : ConnectOk(t)
    \/ \E t \in Tasks : IoDone(t)
    \/ \E c \in Callers : CallerStart(c)
    \/ \E c \in Callers : CallerDone(c)

SpecGate == InitGate /\ [][NextGate]_vars

\* The control API's validating entry points called by an entity while the
\* polling task assembles snapshots of a reachable device (auto-start off).
InitApi ==
    /\ Init
    /\ ~auto_start
    /\ profile.freqs = DefaultFreqs

NextApi ==
    \/ TickStart
    \/ ProbeConnect
    \/ ProbeClosed
    \/ SnapQueryDone
    \/ SnapshotAssembled
    \/ \E t \in Tasks : LockGranted(t)
    \/ \E t \in Tasks : ConnectOk(t)
    \/ \E t \in Tasks : IoDone(t)
    \/ \E c \in Callers : CallSetVoltage(c)
    \/ \E c \in Callers : CallSetFrequency(c)
    \/ \E c \in Callers : CallControl(c)
    \/ \E c \in Callers : ApiCommandDone(c)
    \/ \E c \in Callers : CallStartHashing(c)
    \/ \E c \in Callers : StartHashingStep(c)

SpecApi == InitApi /\ [][NextApi]_vars

\* The parser on every text of the alphabet up to MaxText characters.
InitParse ==
    /\ InitCore
    /\ auto_start
    /\ profile.freqs = DefaultFreqs
    /\ wire = NoWire
    /\ text \in Texts
    /\ parsed = NoParse
    /\ sensor = NoSensor

NextParse == ParseText

SpecParse == InitParse /\ [][NextParse]_vars

\* One sub-query of the assembler on its connection: the command has been
\* written, and the device answers with any response in any segmentation.
InitRead ==
    /\ InitCore
    /\ auto_start
    /\ profile.freqs = DefaultFreqs
    /\ \E s \in Segmentations, c \in {CMD_QUERY_SUMMARY, CMD_QUERY_HASH_POWER_STATE} :
         wire = [phase |-> "reading", cmd |-> c, response |-> Concat(s, Len(s)),
                 segs |-> s, arrived |-> 0, buf |-> <<>>, eof |-> FALSE,
                 raw |-> <<>>, outcome |-> NoPending,
                 data |-> MinerData(TRUE), resp |-> <<>>]
    /\ text = <<>>
    /\ parsed = NoParse
    /\ sensor = NoSensor

NextRead ==
    \/ DeviceSends
    \/ DeviceCloses
    \/ ReadReturns
    \/ ReadTimesOut
    \/ QueryApplied

SpecRead == InitRead /\ [][NextRead]_vars

\* The sensor after async_added_to_hass (record 0, or the record restored
\* from storage), given coordinator updates of every kind in every order.
InitSensor ==
    /\ InitCore
    /\ auto_start
    /\ profile.freqs = DefaultFreqs
    /\ wire = NoWire
    /\ text = <<>>
    /\ parsed = NoParse
    /\ \E b \in {0, MaxShare - 1} :
         sensor = [phase |-> "listening", all_time_best |-> b, start |-> b,
                   seen |-> {}, data |-> NoData]

NextSensor == CoordinatorUpdate

SpecSensor == InitSensor /\ [][NextSensor]_vars

\* Raw values of one token: every text of up to MaxToken characters of a
\* digit, the point, the exponent letter, a sign, a letter and the blank, and
\* the literals of booleans, infinities and not-a-number.
TokenChars == {"1", ".", "e", "-", "x", " "}
MaxToken == 3
TokenWords ==
    { <<"1", "e", "5">>, <<"i", "n", "f">>, <<"n", "a", "n">>,
      <<"-", "i", "n", "f">>, <<"I", "n", "f", "i", "n", "i", "t", "y">>,
      <<"t", "r", "u", "e">>, <<"T", "R", "U", "E">>,
      <<"F", "a", "l", "s", "e">>, <<"1", "_", "1">>, <<"1", ".", "5", "e", "1">> }
Tokens == UNION {[1..n -> TokenChars] : n \in 1..MaxToken} \cup TokenWords

\* The parser on the response "k=<raw value>" for every raw value.
InitCoerce ==
    /\ InitCore
    /\ auto_start
    /\ profile.freqs = DefaultFreqs
    /\ wire = NoWire
    /\ \E t \in Tokens : text = <<"k", "=">> \o t
    /\ parsed = NoParse
    /\ sensor = NoSensor

NextCoerce == ParseText

SpecCoerce == InitCoerce /\ [][NextCoerce]_vars

\* The electrical-state query on every response of the device.
InitPower ==
    /\ InitCore
    /\ auto_start
    /\ profile.freqs = DefaultFreqs
    /\ \/ \E prefix \in MsgPrefixes, items \in PowerItems :
            /\ wire = [phase |-> "responded", cmd |-> CMD_QUERY_HASH_POWER_STATE,
                       token |-> TRUE, prefix |-> prefix, items |-> items]
            /\ text = PowerText(prefix, items)
       \/ \E t \in OtherTexts :
            /\ wire = [phase |-> "responded", cmd |-> CMD_QUERY_HASH_POWER_STATE,
                       token |-> FALSE, prefix |-> <<>>, items |-> <<>>]
            /\ text = t
    /\ parsed = NoParse
    /\ sensor = NoSensor

NextPower == QueryHashPowerState

SpecPower == InitPower /\ [][NextPower]_vars

\* The sensor platform from its setup on, under the coordinator's updates.
InitPlatform ==
    /\ InitCore
    /\ auto_start
    /\ profile.freqs = DefaultFreqs
    /\ wire = NoWire
    /\ text = <<>>
    /\ parsed = NoParse
    /\ sensor = NoSensor

NextPlatform ==
    \/ PlatformSetup
    \/ PlatformUpdate

SpecPlatform == InitPlatform /\ [][NextPlatform]_vars

\* The configuration from the setup flow on: options flows and the number
\* entities' writes, whose commands go through the client's transport.
InitConfig ==
    /\ was_online = FALSE
    /\ offline_count = 0
    /\ energy_kwh = 0
    /\ since_energy_ts = NoTimestamp
    /\ auto_start = TRUE
    /\ profile = ProfileOf([data |-> NoOptions, options |-> NoOptions])
    /\ lock = Free
    /\ waiters = <<>>
    /\ conn = {}
    /\ pc = [t \in Tasks |-> "idle"]
    /\ cmd = [t \in Tasks |-> NoCmd]
    /\ pending = [t \in Tasks |-> NoPending]
    /\ run = NoRun
    /\ last_probe = "none"
    /\ api = [c \in Callers |-> NoCall]
    /\ entry = [created |-> FALSE, data |-> NoOptions, options |-> NoOptions]
    /\ wire = NoWire
    /\ text = <<>>
    /\ parsed = NoParse
    /\ sensor = NoSensor

NextConfig ==
    \/ ConfigFlowSubmit
    \/ OptionsFlowSubmit
    \/ \E c \in Callers : NumberSetFrequency(c)
    \/ \E c \in Callers : NumberSetVoltage(c)
    \/ \E c \in Callers : ConnectOk(c)
    \/ \E c \in Callers : IoDone(c)
    \/ \E c \in Callers : ApiCommandDone(c)

SpecConfig == InitConfig /\ [][NextConfig]_vars

\* ==================================================================== claims
SeqPhases == {"seq_summary", "seq_fan", "seq_volt", "seq_freq", "seq_sleep"}
\* the probe of the current tick has been decided
ProbeDecided == run.probe_ok # "none"

C2_OfflineTickStub ==
    [][ (pc[Tick] = "probe" /\ run'.probe_ok = "down") =>
          /\ run'.status = "returned"
          /\ run'.result = <<MinerData(FALSE)>>
          /\ was_online' = FALSE
          /\ offline_count' = offline_count + 1
          /\ energy_kwh' = energy_kwh
          /\ since_energy_ts' = since_energy_ts
          /\ pc'[Tick] = "idle"
          /\ cmd'[Tick] = NoCmd
          /\ run'.snap_log = <<>> /\ run'.seq_calls = 0
          /\ UNCHANGED <<lock, waiters, conn>> ]_vars

\* C2 witness: the second unreachable tick in a row has returned its stub.
C2_Witness ==
    /\ run.probe_ok = "down"
    /\ run.status = "returned"
    /\ run.prev_offline >= 1
    /\ offline_count = run.prev_offline + 1

\* C3: on a transition tick the sequencer has ended (success or exhaustion)
\* before fetch_full_snapshot sends its first command, and the tick returns
\* only after both have finished.
C3_SequencerBeforeSnapshot ==
    /\ run.phase \in SeqPhases => run.snap_log = <<>>
    /\ run.snap_log # <<>> => run.seq_state \in {"none", "success", "exhausted"}
    /\ (run.status = "returned" /\ run.probe_ok = "up") =>
          /\ Len(run.snap_log) = Len(SnapOrder)
          /\ run.seq_state # "running"
          /\ run.seq_calls = 1 => run.seq_state \in {"success", "exhausted"}

\* C3 witness: a transition tick has returned its snapshot after the
\* sequencer was exhausted.
C3_Witness ==
    /\ run.status = "returned"
    /\ run.seq_calls = 1
    /\ run.seq_state = "exhausted"
    /\ Len(run.snap_log) = Len(SnapOrder)

\* C4: the sequencer is bounded.  While it runs, the attempt number is in
\* 1..10, one summary query has been issued per attempt and one delay lies
\* between consecutive attempts; when every summary reported a hashrate of 0
\* it ends only by exhaustion, after exactly 10 attempts and 10 summary
\* queries and without any fan/voltage/frequency command, and the tick goes
\* on (nothing is raised).  Whatever the outcomes, it terminates.
C4_SequencerRunning == run.seq_state = "running" /\ run.status = "running"
C4_SequencerBounded ==
    /\ [](C4_SequencerRunning =>
            /\ run.attempt \in 1..max_attempts
            /\ run.n_summary = run.attempt
            /\ run.n_delays = run.attempt - 1
            /\ run.all_zero => (~run.any_push /\ run.push_log = <<>>))
    /\ [][ (C4_SequencerRunning /\ run'.status = "running"
              /\ run'.seq_state # "running" /\ run.all_zero) =>
             /\ run'.seq_state = "exhausted"
             /\ pc[Tick] = "sleep"
             /\ run.attempt = max_attempts
             /\ run.n_summary = max_attempts
             /\ ~run.any_push ]_vars
    /\ (C4_SequencerRunning ~> ~C4_SequencerRunning)

\* C4 witness: the delay after the 10th attempt of a sequence whose
\* summaries all reported 0.
C4_Witness ==
    /\ run.seq_state = "running"
    /\ run.all_zero
    /\ run.attempt = max_attempts
    /\ run.phase = "seq_sleep"
    /\ run.n_summary = max_attempts

\* C5: in a sequencer attempt whose summary reported a 30-second hashrate at
\* or below 5 (5 included) no fan, voltage or frequency command is sent: the
\* attempt goes straight to the delay.  A push is under way only in an
\* attempt whose summary reported a hashrate strictly above 5.
C5_NoPushBelowThreshold ==
    run.seq_state = "running" =>
      /\ (run.attempt_mhs # <<>> /\ run.attempt_mhs[1] <= 5) =>
            /\ run.push_log = <<>>
            /\ run.phase \in {"seq_sleep", "none"}
            /\ pc[Tick] \in {"sleep", "idle"}
            /\ cmd[Tick] = NoCmd
      /\ (run.push_log # <<>> \/ run.phase \in {"seq_fan", "seq_volt", "seq_freq"}) =>
            /\ run.attempt_mhs # <<>>
            /\ run.attempt_mhs[1] > 5

\* C5 witness: the summary of the current attempt reported exactly 5 and the
\* sequencer is in the delay, having pushed nothing.
C5_Witness ==
    /\ run.seq_state = "running"
    /\ run.attempt_mhs = <<5>>
    /\ run.phase = "seq_sleep"
    /\ run.push_log = <<>>

\* C6: the step in which the push succeeds (set_frequency returned, in
\* attempt k) ends the sequencer: k summary queries and k - 1 delays have
\* happened, the tick goes on to the assembler's first query without a
\* delay, and from then on the tick is in no sequencer phase and in no delay.
C6_SuccessEndsSequencer ==
    /\ [][ (run.seq_state = "running" /\ run'.seq_state = "success") =>
             /\ run.phase = "seq_freq"
             /\ Len(run.push_log) = 3
             /\ pending[Tick].kind = "raw"
             /\ run.n_summary = run.attempt
             /\ run.n_delays = run.attempt - 1
             /\ run'.phase = "snap"
             /\ run'.snap_log = <<CMD_QUERY_CONTROLLER_VERSION>>
             /\ cmd'[Tick] = CMD_QUERY_CONTROLLER_VERSION
             /\ pc'[Tick] # "sleep" ]_vars
    /\ [](run.seq_state = "success" =>
             /\ run.phase \notin SeqPhases
             /\ pc[Tick] # "sleep"
             /\ run.n_summary = 0
             /\ cmd[Tick] # NoCmd => run.snap_log # <<>>
                                      /\ cmd[Tick] = run.snap_log[Len(run.snap_log)])

\* C6 witness: the push has succeeded and the assembler's first query is out.
C6_Witness ==
    /\ run.seq_state = "success"
    /\ run.phase = "snap"
    /\ run.snap_log = <<CMD_QUERY_CONTROLLER_VERSION>>

\* the commands of one push, in order
C7_PushOrder ==
    <<CMD_ENABLE_FAN, cmd_set_voltage(profile.voltage),
      cmd_set_frequency(profile.freqs, profile.hash_no)>>
\* a step of the running sequencer in which one of its commands fails
C7_StepFails ==
    /\ run.status = "running" /\ run'.status = "running"
    /\ run.phase \in {"seq_summary", "seq_fan", "seq_volt", "seq_freq"}
    /\ \/ pc[Tick] = "connecting" /\ pc'[Tick] # "io"
       \/ pc[Tick] = "closing" /\ Raises(pending[Tick])

\* C7: the commands of one push are enable fan, set voltage, set frequency
\* in this order, each sent only in the step in which the previous one
\* returned a response; a step in which a command of the sequencer (the
\* summary query included) fails sends nothing more, keeps the sequencer
\* running in the same attempt and starts the delay, after which the next
\* attempt begins or, after the 10th, the sequencer ends.
C7_PushOrderAndFailure ==
    /\ [](run.seq_state = "running" =>
            /\ Len(run.push_log) <= 3
            /\ run.push_log = SubSeq(C7_PushOrder, 1, Len(run.push_log))
            /\ run.phase = "seq_fan" => Len(run.push_log) = 1
            /\ run.phase = "seq_volt" => Len(run.push_log) = 2
            /\ run.phase = "seq_freq" => Len(run.push_log) = 3
            /\ run.phase \in {"seq_fan", "seq_volt", "seq_freq"} =>
                  cmd[Tick] = run.push_log[Len(run.push_log)])
    /\ [][ (run.seq_state = "running" /\ run'.seq_state = "running"
              /\ Len(run'.push_log) = Len(run.push_log) + 1) =>
             /\ pc[Tick] = "closing"
             /\ pending[Tick].kind = "raw" ]_vars
    /\ [][ C7_StepFails =>
             /\ run'.phase = "seq_sleep"
             /\ pc'[Tick] = "sleep"
             /\ cmd'[Tick] = NoCmd
             /\ run'.push_log = run.push_log
             /\ run'.attempt = run.attempt
             /\ run'.seq_state = "running" ]_vars
    /\ [][ (pc[Tick] = "sleep" /\ run'.status = "running" /\ pc'[Tick] # "sleep") =>
             IF run.attempt < max_attempts
             THEN /\ run'.attempt = run.attempt + 1
                  /\ run'.phase = "seq_summary"
                  /\ cmd'[Tick] = CMD_QUERY_SUMMARY
                  /\ run'.push_log = <<>>
             ELSE run'.seq_state = "exhausted" ]_vars

\* C7 witness: with a valid profile, fan and voltage were sent, the voltage
\* command failed, and the sequencer is in the delay with frequency unsent.
C7_Witness ==
    /\ run.seq_state = "running"
    /\ FrequencyValid(profile.freqs)
    /\ Len(run.push_log) = 2
    /\ run.phase = "seq_sleep"
    /\ run.attempt < max_attempts

\* the i-th sub-query's value, or the field's default when it failed
C8_Got(i, default) == IF run.resp[i] = <<>> THEN default ELSE run.resp[i][1]
\* the snapshot as a function of the five sub-queries' responses, the energy
\* total before the tick and the clock at the sample, and of nothing else
C8_SnapshotOf ==
    LET p == C8_Got(4, 0)
        e == IF run.since_at_sample # NoTimestamp /\ p > 0
             THEN run.energy_before + p * run.since_at_sample
             ELSE run.energy_before
    IN  [online |-> TRUE, controller |-> C8_Got(1, ""), mhs_30s |-> C8_Got(2, 0),
         estats |-> C8_Got(3, ""), output_power_w |-> p, pools |-> run.resp[5],
         energy_consumed_kwh |-> Round4(e)]

\* C8: when the sequencer exhausts its 10 attempts nothing is raised into the
\* tick: the same step goes on to the assembler's first query with the poll
\* state untouched, the tick fails afterwards only if the assembler does, and
\* the snapshot a reachable tick returns is determined by the responses to
\* the assembler's five queries (and the energy total and clock) alone,
\* whether the sequencer did not run, succeeded or was exhausted.
C8_ExhaustionIsSilent ==
    /\ [][ (run.seq_state = "running" /\ run'.seq_state = "exhausted") =>
             /\ run.attempt = max_attempts
             /\ run'.status = "running"
             /\ run'.phase = "snap"
             /\ run'.snap_log = <<CMD_QUERY_CONTROLLER_VERSION>>
             /\ cmd'[Tick] = CMD_QUERY_CONTROLLER_VERSION
             /\ UNCHANGED <<was_online, offline_count, energy_kwh>> ]_vars
    /\ []((run.seq_state = "exhausted" /\ run.status = "failed") =>
             run.details = DetailsMalformed)
    /\ []((run.status = "returned" /\ run.probe_ok = "up") =>
             /\ run.snap_log = SnapOrder
             /\ Len(run.resp) = Len(SnapOrder)
             /\ run.result = <<C8_SnapshotOf>>)

\* C8 witness: a tick whose sequencer was exhausted has returned the
\* assembler's snapshot, with a power reading in it.
C8_Witness ==
    /\ run.seq_state = "exhausted"
    /\ run.status = "returned"
    /\ run.result # <<>>
    /\ run.result[1].online
    /\ run.result[1].output_power_w > 0
    /\ run.result[1].mhs_30s = 0

\* C9: once the polling task has been cancelled the sequencer does nothing
\* more: no attempt is started, no command is issued, and the task ends (at
\* once when it was in the delay or waiting for the gate or a connection;
\* after closing its connection when it was reading), holding neither the
\* gate nor a connection; nothing else is left running on its behalf.
C9_CancelStopsSequencer ==
    /\ [](run.cancel_at # "none" =>
            \/ /\ run.status = "cancelled"
               /\ pc[Tick] = "idle"
               /\ cmd[Tick] = NoCmd
               /\ Tick \notin conn
               /\ lock # Tick
               /\ \A i \in 1..Len(waiters) : waiters[i] # Tick
            \/ /\ run.cancel_at = "io"
               /\ run.status = "running"
               /\ pc[Tick] = "closing"
               /\ pending[Tick].kind = "cancelled")
    /\ [][ run'.cancel_at # "none" =>
             /\ run'.attempt = run.attempt
             /\ run'.n_summary = run.n_summary
             /\ run'.n_delays = run.n_delays
             /\ run'.push_log = run.push_log
             /\ run'.snap_log = run.snap_log
             /\ cmd'[Tick] \in {cmd[Tick], NoCmd}
             /\ pc'[Tick] \in {"idle", "closing"} ]_vars
    /\ [][ (pc[Tick] = "sleep" /\ run.cancel_at = "none" /\ run'.cancel_at # "none") =>
             /\ run'.status = "cancelled"
             /\ pc'[Tick] = "idle" ]_vars

\* C9 witness: the task was cancelled in the delay after an attempt that was
\* not the last one and has ended there.
C9_Witness ==
    /\ run.cancel_at = "sleep"
    /\ run.status = "cancelled"
    /\ run.seq_state = "running"
    /\ run.attempt \in 1..(max_attempts - 1)
    /\ pc[Tick] = "idle"

\* task t is inside the gate: connecting, reading or closing
C10_InFlight(t) == pc[t] \in {"connecting", "io", "closing"}

\* C10: at most one _send_command is inside the gate at any time, whoever
\* the callers are: a task in flight holds the gate, no two tasks are in
\* flight together, a task waiting for the gate is in its queue, and a task
\* starts connecting only in a step before and after which no other task is
\* in flight.
C10_OneCommandInFlight ==
    /\ [](\A t \in Tasks :
            /\ C10_InFlight(t) => lock = t
            /\ C10_InFlight(t) => \A u \in Tasks \ {t} : ~C10_InFlight(u)
            /\ pc[t] = "lockwait" <=> \E i \in 1..Len(waiters) : waiters[i] = t)
    /\ [][ \A t \in Tasks :
             (pc[t] # "connecting" /\ pc'[t] = "connecting") =>
                \A u \in Tasks \ {t} :
                   /\ pc[u] \notin {"connecting", "io"}
                   /\ ~C10_InFlight(u)' ]_vars

\* C10 witness: a control-API call is reading its response while the
\* sequencer's enable-fan command waits for the gate.
C10_Witness ==
    \E c \in Callers :
        /\ pc[c] = "io"
        /\ pc[Tick] = "lockwait"
        /\ cmd[Tick] = CMD_ENABLE_FAN
        /\ lock = c

\* C11: while a task holds the gate (its command is in flight), no other
\* task has a connection to the device open, the connect-only connection of
\* a tick's probe included.
C11_NoRacingConnections ==
    \A t \in Tasks : C10_InFlight(t) => conn \subseteq {t}

\* the tick's assembler has ended (by returning or by raising)
AssemblerEnded == run.probe_ok = "up" /\ run.status \in {"returned", "failed"}

\* C12: whichever of the five sub-queries fail, the assembler raises nothing
\* and returns a snapshot with online=True in which a field sourced from a
\* failed query has its default and a field sourced from a successful query
\* has that query's response.
C12_PartialFailureTolerated ==
    AssemblerEnded =>
      /\ run.status = "returned"
      /\ Len(run.resp) = 5
      /\ run.result[1].online
      /\ run.result[1].controller = C8_Got(1, "")
      /\ run.result[1].mhs_30s = C8_Got(2, 0)
      /\ run.result[1].estats = C8_Got(3, "")
      /\ run.result[1].output_power_w = C8_Got(4, 0)
      /\ run.result[1].pools = run.resp[5]

\* the five commands of the assembler, in order
C13_Order == << <<"version">>, <<"summary">>, <<"estats">>,
                <<"ascset|0,hashpower">>, <<"pools">> >>

\* C13: the assembler sends version, summary, estats, ascset|0,hashpower,
\* pools in this order, one at a time: what it has sent is always a prefix
\* of that list, the end of each of the first four queries issues the next
\* one whatever its outcome, and when the assembler ends all five have been
\* sent, each once.
C13_FiveQueriesInOrder ==
    /\ [](/\ Len(run.snap_log) <= 5
          /\ run.snap_log = SubSeq(C13_Order, 1, Len(run.snap_log))
          /\ run.phase = "snap" =>
                /\ run.snap_log # <<>>
                /\ cmd[Tick] = run.snap_log[Len(run.snap_log)]
                /\ Len(run.resp) = Len(run.snap_log) - 1)
    /\ [](AssemblerEnded => run.snap_log = C13_Order)
    /\ [][ (run.phase = "snap" /\ Len(run.snap_log) < 5
              /\ Len(run'.resp) = Len(run.resp) + 1) =>
             /\ run'.status = "running"
             /\ run'.snap_log = Append(run.snap_log, C13_Order[Len(run.snap_log) + 1])
             /\ cmd'[Tick] = C13_Order[Len(run.snap_log) + 1] ]_vars

\* C13 witness: the assembler has returned after its first and third query
\* failed and its last one answered.
C13_Witness ==
    /\ run.status = "returned"
    /\ run.snap_log = C13_Order
    /\ Len(run.resp) = 5
    /\ run.resp[1] = <<>>
    /\ run.resp[3] = <<>>
    /\ run.resp[5] # <<>>

\* C14: every tick ends by returning a snapshot, never by raising, whatever
\* the probe result, the sub-queries' outcomes and the text of the answers.
C14_TickNeverRaises == run.status # "failed"

\* C15: the step in which a tick returns an assembled sample with power P
\* sets the timestamp to now and adds exactly P x (now - t0) to the total
\* when there is a previous timestamp t0 and P > 0, and nothing otherwise
\* (first sample, or P <= 0); no other step changes the total.  With
\* 1000 W sampled at t = 0 and t = 3600 s (120 delays of 30 s) the total
\* after the second sample is 3 600 000 Ws = 1.0 kWh.
C15_RectangularEnergy ==
    /\ [][ (run.phase = "snap" /\ run'.status = "returned") =>
             /\ energy_kwh' = energy_kwh +
                   (IF since_energy_ts # NoTimestamp
                          /\ run'.result[1].output_power_w > 0
                    THEN run'.result[1].output_power_w * since_energy_ts
                    ELSE 0)
             /\ since_energy_ts' = 0 ]_vars
    /\ [][ energy_kwh' # energy_kwh =>
             (run.phase = "snap" /\ run'.status = "returned") ]_vars
    /\ [](LET first  == Accumulate(0, NoTimestamp, [output_power_w |-> 1000])
              second == Accumulate(first, 120, [output_power_w |-> 1000])
          IN  /\ first = 0
              /\ second * sleep_between_attempts = 3600000
              /\ Round4(second) = 10000)

\* C15 witness: a sample with positive power and a previous timestamp has
\* been added to the total.
C15_Witness ==
    /\ run.status = "returned"
    /\ run.probe_ok = "up"
    /\ run.since_at_sample >= 1
    /\ run.result[1].output_power_w > 0
    /\ energy_kwh = run.energy_before
                      + run.result[1].output_power_w * run.since_at_sample
    /\ energy_kwh > 0

\* C16: a sample returned by a tick that follows an unreachable tick (or is
\* the first tick) only sets the timestamp: the energy total stays what it
\* was before the gap, whatever power the sample reports.
C16_GapAddsNoEnergy ==
    [][ (run.phase = "snap" /\ run'.status = "returned" /\ ~run.prev_online) =>
          energy_kwh' = energy_kwh ]_vars

\* the step in which caller c calls entry point op
ApiCallStep(c, op) == pc[c] = "idle" /\ api'[c] # api[c] /\ api'[c].op = op
\* the call of caller c is rejected in this step before any network call
RejectedBeforeNetwork(c) ==
    /\ api'[c].result = "ValueError"
    /\ api'[c].sent = <<>>
    /\ pc'[c] = "idle"
    /\ cmd'[c] = NoCmd
    /\ UNCHANGED <<lock, waiters, conn>>

\* C17: set_voltage(v) hands a command to the transport if and only if
\* 0 <= v <= 60, and the command is exactly ascset|0,voltage-level,<v>-0-0;
\* for any other v the call raises the validation error in the calling step,
\* with the gate, its queue and the connections untouched.
C17_SetVoltageValidated ==
    /\ [][ \A c \in Callers : ApiCallStep(c, "set_voltage") =>
             IF 0 <= api'[c].voltage /\ api'[c].voltage <= 60
             THEN /\ api'[c].result = "pending"
                  /\ api'[c].sent = << <<"ascset|0,voltage-level,", api'[c].voltage, "-0-0">> >>
                  /\ cmd'[c] = <<"ascset|0,voltage-level,", api'[c].voltage, "-0-0">>
                  /\ pc'[c] \in {"connecting", "lockwait"}
             ELSE RejectedBeforeNetwork(c) ]_vars
    /\ [](\A c \in Callers : api[c].op = "set_voltage" =>
            /\ api[c].sent # <<>> <=> api[c].voltage \in 0..60
            /\ (c \in conn \/ lock = c \/ pc[c] # "idle") => api[c].voltage \in 0..60
            /\ pc[c] # "idle" => cmd[c] = api[c].sent[1])

\* C17 witness: set_voltage(61) was rejected while the polling task held
\* the gate.
C17_Witness ==
    \E c \in Callers :
        /\ api[c].op = "set_voltage"
        /\ api[c].voltage = 61
        /\ api[c].result = "ValueError"
        /\ lock = Tick
        /\ pc[c] = "idle"

\* C18: set_frequency(f1, f2, f3, f4, board) hands a command to the
\* transport if and only if the four values are in the valid set and
\* f1 < f2 < f3 < f4, and the command is exactly
\* ascset|0,frequency,<f1>:<f2>:<f3>:<f4>-0-<board>-0 with the values as
\* given; otherwise the call raises the validation error in the calling
\* step, with the gate, its queue and the connections untouched.
C18_SetFrequencyValidated ==
    /\ [][ \A c \in Callers : ApiCallStep(c, "set_frequency") =>
             LET f == api'[c].freqs
                 k == <<"ascset|0,frequency,", f[1], ":", f[2], ":", f[3], ":",
                        f[4], "-0-", api'[c].hash_no, "-0">>
             IN  IF /\ \A i \in 1..4 : f[i] \in VALID_MINER_FREQUENCIES
                    /\ f[1] < f[2] /\ f[2] < f[3] /\ f[3] < f[4]
                 THEN /\ api'[c].result = "pending"
                      /\ api'[c].sent = <<k>>
                      /\ cmd'[c] = k
                      /\ pc'[c] \in {"connecting", "lockwait"}
                 ELSE RejectedBeforeNetwork(c) ]_vars
    /\ [](\A c \in Callers : api[c].op = "set_frequency" =>
            /\ Len(api[c].sent) <= 1
            /\ (c \in conn \/ lock = c \/ pc[c] # "idle") =>
                  /\ api[c].sent # <<>>
                  /\ cmd[c] = api[c].sent[1])

\* C18 witness: set_frequency with two equal neighbouring zones was rejected
\* while the polling task held the gate.
C18_Witness ==
    \E c \in Callers :
        /\ api[c].op = "set_frequency"
        /\ api[c].freqs = <<325, 325, 350, 362>>
        /\ api[c].result = "ValueError"
        /\ lock = Tick
        /\ pc[c] = "idle"

\* C19: set_frequency(300, 700, 500, 800) and set_frequency(300, 500, 700,
\* 900) fail with the validation error, and set_frequency(325, 337, 350,
\* 362) sends the command with the pattern 325:337:350:362-0-<board>-0.
C19_SampleProfiles ==
    \A c \in Callers : api[c].op = "set_frequency" =>
        /\ api[c].freqs = <<300, 700, 500, 800>> => api[c].result = "ValueError"
        /\ api[c].freqs = <<300, 500, 700, 900>> => api[c].result = "ValueError"
        /\ api[c].freqs = <<325, 337, 350, 362>> =>
              api[c].sent = << <<"ascset|0,frequency,", 325, ":", 337, ":", 350,
                                 ":", 362, "-0-", api[c].hash_no, "-0">> >>

\* C20: start_hashing called with a profile that violates a constraint
\* (voltage outside [0, 60], a frequency outside the valid set, frequencies
\* not strictly ascending) hands no command to the transport and opens no
\* connection.
C20_StartHashingValidatesFirst ==
    \A c \in Callers :
        (/\ api[c].op = "start_hashing"
         /\ \/ api[c].voltage \notin 0..60
            \/ \E i \in 1..4 : api[c].freqs[i] \notin VALID_MINER_FREQUENCIES
            \/ \E i \in 1..3 : api[c].freqs[i] >= api[c].freqs[i + 1])
        => /\ api[c].sent = <<>>
           /\ c \notin conn

\* C21: a single-command control call (set_voltage, set_frequency,
\* reboot_miner, soft_shutdown, shutdown_hash_power) whose _send_command fails
\* by timeout, connection error or empty response ends by raising to its
\* caller, and the step in which any such call ends leaves the poll state, the
\* tick's frame and the tick's position in the transport untouched, with the
\* gate released and the caller's connection closed: the tick goes on from
\* exactly the state it was in.
C21_CallEnds(c) ==
    /\ api[c].op \in DirectOps
    /\ api[c].result = "pending"
    /\ api'[c].result # "pending"

C21_ControlFailurePropagates ==
    [][\A c \in Callers :
         C21_CallEnds(c) =>
           /\ ( \/ pc[c] = "connecting"
                \/ pc[c] = "closing" /\ Raises(pending[c]) )
              => api'[c].result = "raised"
           /\ (pc[c] = "closing" /\ pending[c].kind = "raw")
              => api'[c].result = "returned"
           /\ UNCHANGED <<pollVars, run, last_probe, waiters>>
           /\ pc'[Tick] = pc[Tick]
           /\ cmd'[Tick] = cmd[Tick]
           /\ pending'[Tick] = pending[Tick]
           /\ lock' # c
           /\ c \notin conn'
           /\ conn' \ {c} = conn \ {c}]_vars

\* a reboot failed, and the tick that queued behind it has the gate and reads
C21_Witness ==
    \E c \in Callers :
      /\ api[c].op = "reboot_miner"
      /\ api[c].result = "raised"
      /\ pc[Tick] = "io"
      /\ run.status = "running"
      /\ was_online

\* C22: every _send_command opens one new connection for its command and has
\* closed it when it returns or raises. A task has a connection open only
\* while it reads or closes (or, in the probe, closes); the read is entered
\* only from the connect step and by a task that held no connection; and the
\* step in which a task leaves the read or the close - by a return, by any
\* exception, the read's timeout included - leaves the task without a
\* connection, so that a task that is idle, delayed, queued for the gate or
\* connecting has none.
C22_ConnectionPerCommand ==
    /\ [](\A t \in Tasks :
            /\ t \in conn => pc[t] \in {"io", "closing", "probe_closing"}
            /\ pc[t] \in {"io", "closing"} => t \in conn)
    /\ [][\A t \in Tasks :
            /\ (pc[t] # "io" /\ pc'[t] = "io")
                 => pc[t] = "connecting" /\ t \notin conn /\ cmd'[t] = cmd[t]
            /\ (pc[t] \in {"io", "closing"} /\ pc'[t] \notin {"io", "closing"})
                 => t \notin conn']_vars

\* a control command's read timed out after a successful connect and its
\* connection is being closed, while the tick, between two commands of the
\* sequencer, holds none
C22_Witness ==
    \E c \in Callers :
      /\ pc[c] = "closing"
      /\ pending[c].kind = "timeout"
      /\ c \in conn
      /\ pc[Tick] = "sleep"
      /\ Tick \notin conn

\* the three commands of start_hashing for the arguments of call a, in order
C28_Steps(a) ==
    << CMD_ENABLE_FAN, cmd_set_voltage(a.voltage),
       cmd_set_frequency(a.freqs, a.hash_no) >>

\* C28: start_hashing never raises and returns True exactly when enable-fan,
\* set-voltage and set-frequency each completed without error, in that order.
\* What it has sent is always a prefix of the three commands; a step is sent
\* only after the one before it answered; the call ends with True in the
\* step in which the third command answers, and with False in the step in
\* which a command fails in the transport or the next step's arguments are
\* rejected, and that step sends nothing more.
C28_StartHashingResult ==
    /\ [](\A c \in Callers :
            api[c].op = "start_hashing" =>
              /\ api[c].result \in {"pending", "True", "False"}
              /\ Len(api[c].sent) \in 1..3
              /\ api[c].sent = SubSeq(C28_Steps(api[c]), 1, Len(api[c].sent))
              /\ api[c].result = "True" =>
                   /\ api[c].sent = C28_Steps(api[c])
                   /\ VoltageValid(api[c].voltage)
                   /\ FrequencyValid(api[c].freqs))
    /\ [][\A c \in Callers :
            (api[c].op = "start_hashing" /\ api[c].result = "pending"
               /\ api'[c] # api[c]) =>
              LET answered == pc[c] = "closing" /\ pending[c].kind = "raw"
                  n == Len(api[c].sent)
                  next_ok == IF n = 1 THEN VoltageValid(api[c].voltage)
                             ELSE FrequencyValid(api[c].freqs)
              IN  /\ api'[c].result = "True" <=> (answered /\ n = 3)
                  /\ api'[c].result = "False" <=>
                       (~answered \/ (n < 3 /\ ~next_ok))
                  /\ api'[c].result = "pending" <=>
                       (answered /\ n < 3 /\ next_ok)
                  /\ api'[c].result = "pending" =>
                       /\ Len(api'[c].sent) = n + 1
                       /\ cmd'[c] = C28_Steps(api[c])[n + 1]
                  /\ api'[c].result # "pending" =>
                       /\ api'[c].sent = api[c].sent
                       /\ pc'[c] = "idle"
                       /\ lock' # c]_vars

\* start_hashing returned False after its set-voltage command failed in the
\* transport: the valid frequency profile was never sent
C28_Witness ==
    \E c \in Callers :
      /\ api[c].op = "start_hashing"
      /\ api[c].result = "False"
      /\ Len(api[c].sent) = 2
      /\ FrequencyValid(api[c].freqs)

\* C25: is_online exchanges no data and ends only by returning: while the
\* probe connects or closes, the tick has no command and the probe's
\* connection is never read from; unless the tick is cancelled inside it, the
\* probe returns True exactly when its connection was established - also when
\* wait_closed raised - and False when the connect failed, and the tick does
\* not fail in that step.
C25_ProbeNeverRaises ==
    /\ [](pc[Tick] \in {"probe", "probe_closing"} =>
            /\ cmd[Tick] = NoCmd
            /\ run.status = "running"
            /\ run.probe_ok = "none"
            /\ (Tick \in conn <=> pc[Tick] = "probe_closing"))
    /\ [][(pc[Tick] = "probe" /\ pc'[Tick] # "probe" /\ run'.cancel_at = "none") =>
            \/ pc'[Tick] = "probe_closing" /\ run' = run /\ Tick \in conn'
            \/ /\ run'.probe_ok = "down"
               /\ last_probe' = "down"
               /\ run'.status = "returned"
               /\ conn' = conn]_vars
    /\ [][(pc[Tick] = "probe_closing" /\ pc'[Tick] # "probe_closing"
             /\ run'.cancel_at = "none") =>
            /\ run'.probe_ok = "up"
            /\ last_probe' = "up"
            /\ was_online'
            /\ run'.status = "running"
            /\ Tick \notin conn'
            /\ pc'[Tick] # "io"]_vars

\* the probe's connection was established and wait_closed raised
C25_Witness ==
    /\ pc[Tick] = "probe_closing"
    /\ Raises(pending[Tick])
    /\ Tick \in conn
    /\ ~was_online

\* the bracket depth after the first i characters of txt
RECURSIVE C30_Depth(_, _)
C30_Depth(txt, i) ==
    IF i = 0 THEN 0
    ELSE C30_Depth(txt, i - 1)
         + (IF txt[i] = "[" THEN 1 ELSE IF txt[i] = "]" THEN -1 ELSE 0)

\* the positions of the delimiters at depth 0
C30_SplitPoints(txt, d) ==
    {i \in 1..Len(txt) : txt[i] = d /\ C30_Depth(txt, i) = 0}

\* the first n parts joined with the delimiter
RECURSIVE C30_Join(_, _, _)
C30_Join(parts, n, d) ==
    IF n = 0 THEN <<>>
    ELSE IF n = 1 THEN parts[1]
    ELSE C30_Join(parts, n - 1, d) \o <<d>> \o parts[n]

\* C30: the splitter cuts the text at exactly the delimiters at bracket depth
\* 0, a delimiter at any other depth, a negative one included, staying inside
\* its part, whatever the brackets' balance; the parts joined with the
\* delimiter are the text, or the text without its last character when the
\* text ends with a delimiter at depth 0 (the empty final part is dropped).
C30_SplitAtDepthZero ==
    parsed.done =>
      LET parts == parsed.parts
          joined == C30_Join(parts, Len(parts), ",")
          cuts == { Len(C30_Join(parts, k, ",")) + 1 : k \in 1..Len(parts) }
      IN  /\ cuts \cap (1..Len(text)) = C30_SplitPoints(text, ",")
          /\ IF Len(text) \in C30_SplitPoints(text, ",")
             THEN joined \o <<",">> = text
             ELSE joined = text

\* a text with a delimiter at negative depth and one at depth 0 has been split
C30_Witness ==
    /\ parsed.done
    /\ text = <<"]", ",", "[", ",">>
    /\ parsed.parts = << <<"]", ",", "[">> >>

\* what a token adds when it is split on its first '=' outside brackets only
C29_SplitOnFirst(token) ==
    LET eqs == C30_SplitPoints(token, "=")
    IN  IF eqs = {} THEN <<>>
        ELSE LET i == CHOOSE x \in eqs : \A y \in eqs : x <= y
                 raw_value == SubSeq(token, i + 1, Len(token))
             IN  IF raw_value = <<>> THEN <<>>
                 ELSE <<SubSeq(token, 1, i - 1), raw_value>>

\* C29: every comma-separated token is split on its first '=' (outside
\* brackets) only: its key is the text before that '=', its raw value the
\* entire remainder, further '=' characters included; a token without '=' or
\* with an empty raw value adds no key.
C29_SplitOnFirstEquals ==
    parsed.done =>
      \A n \in 1..Len(parsed.parts) :
         TokenEntry(parsed.parts[n]) = C29_SplitOnFirst(parsed.parts[n])

\* C23: when the device sends a response of at most the read's limit in
\* several segments and then closes the connection, the bytes _send_command
\* decodes and parses are the complete response, all segments in order.
C23_ReadsWholeResponse ==
    ( /\ wire.phase \in {"ended", "applied"}
      /\ wire.outcome.kind # "timeout"
      /\ Len(wire.response) <= ReadCap )
    => wire.raw = wire.response

\* C24: a read that completes with zero bytes or with whitespace only makes
\* _send_command raise (no record list is returned), any other read makes it
\* return the records of the stripped text; in the assembly the sub-query
\* whose response was empty contributes nothing and its field keeps its
\* default.
C24_EmptyResponseFails ==
    ( /\ wire.phase \in {"ended", "applied"}
      /\ wire.outcome.kind # "timeout" )
    => LET blank == \A i \in 1..Len(wire.raw) : wire.raw[i] = " "
       IN  /\ blank <=> wire.outcome = Exc("empty")
           /\ blank => Raises(wire.outcome)
           /\ ~blank => /\ wire.outcome.kind = "raw"
                        /\ wire.outcome.val # <<>>
           /\ (blank /\ wire.phase = "applied") =>
                /\ wire.resp = <<>>
                /\ wire.data = MinerData(TRUE)
                /\ wire.data.mhs_30s = 0
                /\ wire.data.output_power_w = 0

\* the device answered the summary query with two blanks and closed; the
\* assembler has gone on with the field at its default
C24_Witness ==
    /\ wire.phase = "applied"
    /\ wire.cmd = CMD_QUERY_SUMMARY
    /\ wire.raw = <<" ", " ">>
    /\ wire.eof
    /\ wire.outcome = Exc("empty")

\* the largest member of a non-empty set of integers
C27_Max(S) == CHOOSE x \in S : \A y \in S : y <= x

\* C27: the all-time best share only moves upward. After every coordinator
\* update the record is the maximum of its starting value and the best_share
\* of every online snapshot seen so far; no update lowers it, and an update
\* with the offline stub or with no data leaves it as it was.
C27_RecordOnlyUpward ==
    /\ [](sensor.phase = "listening" =>
            sensor.all_time_best = C27_Max({sensor.start} \cup sensor.seen))
    /\ [][(sensor.phase = "listening" /\ sensor'.phase = "listening") =>
            /\ sensor'.all_time_best >= sensor.all_time_best
            /\ ~(sensor'.data.present /\ sensor'.data.online)
                 => sensor'.all_time_best = sensor.all_time_best]_vars

\* after a session that reached the largest share the miner rebooted: the
\* session value is back at 0 and the record, first set by an update, stays
C27_Witness ==
    /\ sensor.phase = "listening"
    /\ sensor.start = 0
    /\ sensor.all_time_best = MaxShare
    /\ sensor.data = [present |-> TRUE, online |-> TRUE, best_share |-> 0]

\* C26: in every state after the setup flow, whatever options flows and
\* number-entity writes followed, the profile the coordinator returns has its
\* four frequencies in the valid set and strictly ascending, its voltage in
\* VOLTAGE_MIN..VOLTAGE_MAX and its board selector in 0..4.
C26_ProfileInvariant ==
    entry.created =>
      /\ profile = ProfileOf(entry)
      /\ FrequencyValid(profile.freqs)
      /\ VoltageValid(profile.voltage)
      /\ profile.hash_no \in 0..4

\* C34: the consecutive-offline counter counts the unreachable ticks since
\* the last reachable one. It starts at 0 and changes only where a tick's
\* probe is decided: an unreachable tick adds 1 and clears the online flag, a
\* reachable tick sets it to 0 and sets the flag. So the counter is 0 whenever
\* the flag is set, at least 1 when the flag is clear after a tick has
\* returned, and after a tick returned the flag is the online field of its
\* snapshot and the counter is 0 or one more than before the tick.
C34_OfflineCounter ==
    /\ [](/\ was_online => offline_count = 0
          /\ run.status = "none" => (offline_count = 0 /\ ~was_online)
          /\ run.status = "returned" =>
               /\ was_online = run.result[1].online
               /\ ~was_online => offline_count >= 1
               /\ offline_count = IF run.result[1].online THEN 0
                                  ELSE run.prev_offline + 1)
    /\ [][/\ (run.probe_ok = "none" /\ run'.probe_ok = "down") =>
               (offline_count' = offline_count + 1 /\ ~was_online')
          /\ (run.probe_ok = "none" /\ run'.probe_ok = "up") =>
               (offline_count' = 0 /\ was_online')
          /\ (run'.probe_ok = run.probe_ok \/ run'.probe_ok = "none") =>
               UNCHANGED <<offline_count, was_online>>]_vars

\* the second unreachable tick in a row has returned its stub
C34_Witness ==
    /\ run.status = "returned"
    /\ ~run.result[1].online
    /\ run.prev_offline = 1
    /\ offline_count = 2
    /\ ~was_online

\* C35: the energy total starts at 0 and no step lowers it, whatever the
\* ticks do and whatever power (zero and negative values included) the
\* snapshots report; the rounded value an online snapshot carries is the
\* rounding of the total, not below the rounding of the total before the
\* tick, which is what the previous online snapshot carried.
C35_EnergyNeverDecreases ==
    /\ [](/\ energy_kwh >= 0
          /\ run.status = "none" => energy_kwh = 0
          /\ (run.status = "returned" /\ run.probe_ok = "up") =>
               /\ run.result[1].energy_consumed_kwh = Round4(energy_kwh)
               /\ run.result[1].energy_consumed_kwh >= Round4(run.energy_before)
               /\ energy_kwh >= run.energy_before)
    /\ [][energy_kwh' >= energy_kwh]_vars

\* after energy had been accumulated, a snapshot reporting negative power
\* over a whole delay was returned and the total stayed
C35_Witness ==
    /\ run.status = "returned"
    /\ run.probe_ok = "up"
    /\ run.result[1].output_power_w < 0
    /\ run.since_at_sample >= 1
    /\ run.energy_before > 0
    /\ energy_kwh = run.energy_before

\* the step ends a command of task t: it was connecting, reading or closing
\* and is now elsewhere, or has gone on to its next command
C36_CommandEnds(t) ==
    /\ C10_InFlight(t)
    /\ pc'[t] # pc[t]
    /\ pc'[t] \notin {"io", "closing"}

\* C36: the gate is held only by a task whose command is in flight. A command
\* that ends - with a response, a connect or read timeout, a connection
\* error, an empty response or a cancellation - leaves the gate free, or
\* taken by the same task's next command when nobody waits; it is always free
\* after the step when a task waits, and the task at the head of the queue
\* can then take it.
C36_GateReleased ==
    /\ [](/\ \A t \in Tasks : lock = t => C10_InFlight(t)
          /\ (lock = Free /\ waiters # <<>>) => ENABLED LockGranted(Head(waiters)))
    /\ [][\A t \in Tasks :
            C36_CommandEnds(t) =>
              /\ lock' \in {Free, t}
              /\ lock' = t => (pc'[t] = "connecting" /\ waiters = <<>>)
              /\ waiters' # <<>> => lock' = Free]_vars

\* the tick was cancelled while its command read, and a control command has
\* the gate and connects
C36_Witness ==
    \E c \in Callers :
      /\ run.status = "cancelled"
      /\ run.cancel_at = "io"
      /\ pc[Tick] = "idle"
      /\ pc[c] = "connecting"
      /\ lock = c

\* C37: between the enable-fan command and the set-frequency command of one
\* start_hashing call no other caller's command is sent to the device: while
\* the sequencer's push has had its enable-fan answered and its set-voltage
\* or set-frequency is still to be written, no control-API caller writes or
\* reads on a connection.
C37_PushNotInterleaved ==
    (run.phase \in {"seq_volt", "seq_freq"} /\ pc[Tick] \in {"lockwait", "connecting"})
    => \A c \in Callers : pc[c] \notin {"io", "closing"}

\* C38: the online flag is set, and the counter cleared, before the sequencer
\* starts: they hold all the while the sequencer runs and after a tick that
\* was cancelled or failed once its probe had succeeded. A reachable tick
\* that starts with the flag set does not run the sequencer, and the flag is
\* cleared only by an unreachable tick.
C38_FlagBeforeSequencer ==
    /\ [](/\ run.phase \in SeqPhases => (was_online /\ offline_count = 0)
          /\ (run.probe_ok = "up" /\ run.status \in {"cancelled", "failed"})
               => (was_online /\ offline_count = 0))
    /\ [][/\ (run.probe_ok = "none" /\ run'.probe_ok = "up" /\ was_online) =>
               (run'.phase \notin SeqPhases /\ run'.seq_calls = 0
                  /\ run'.plan = <<>>)
          /\ (was_online /\ ~was_online') => run'.probe_ok = "down"]_vars

\* the tick on which the device became reachable was cancelled in a delay of
\* the sequencer: the flag is set and the counter is 0
C38_Witness ==
    /\ run.status = "cancelled"
    /\ run.cancel_at = "sleep"
    /\ ~run.prev_online
    /\ run.seq_calls = 1
    /\ was_online
    /\ offline_count = 0

\* a step in which caller c writes a number entity
C39_NumberWrite(c) ==
    /\ entry.created
    /\ pc[c] = "idle"
    /\ api'[c].op \in {"set_frequency", "set_voltage"}
    /\ api'[c].result \in {"pending", "ValueError"}
    /\ api'[c].sent = IF api'[c].result = "pending" THEN <<cmd'[c]>> ELSE <<>>

\* C39: a number-entity write changes only the field it addresses. After a
\* voltage write the four frequencies are the same; after a frequency write
\* the voltage and all but one frequency are the same; after either, the
\* board selector and the auto-start flag the coordinator returns are the
\* same as before, whatever the options flow had stored.
C39_WriteChangesOnlyItsField ==
    [][ \A c \in Callers : C39_NumberWrite(c) =>
          /\ profile'.hash_no = profile.hash_no
          /\ auto_start' = auto_start
          /\ api'[c].op = "set_voltage" => profile'.freqs = profile.freqs
          /\ api'[c].op = "set_frequency" =>
               /\ profile'.voltage = profile.voltage
               /\ Cardinality({z \in 1..4 :
                     profile'.freqs[z] # profile.freqs[z]}) <= 1 ]_vars

\* the phases of one attempt of the sequencer, its delay excluded
C40_AttemptPhases == {"seq_summary", "seq_fan", "seq_volt", "seq_freq"}

\* C40: every attempt of the sequencer that ends without success is followed
\* by one full delay, the last one included. An attempt that ends otherwise
\* than by success or cancellation goes into the delay; a delay that ends has
\* taken one unit of the clock and is followed either by the next attempt
\* (there was one left) or, after the 10th attempt, by the return of the
\* sequencer, which has then performed exactly 10 delays, and only then by
\* the first query of the snapshot assembly.
C40_DelayAfterEveryAttempt ==
    [][ /\ (/\ run.phase \in C40_AttemptPhases
            /\ run'.phase \notin C40_AttemptPhases
            /\ run'.cancel_at = "none"
            /\ run'.seq_state # "success") =>
              /\ pc'[Tick] = "sleep"
              /\ run'.phase = "seq_sleep"
              /\ run'.seq_state = "running"
              /\ run'.attempt = run.attempt
              /\ run'.n_delays = run.attempt - 1
        /\ (pc[Tick] = "sleep" /\ pc'[Tick] # "sleep" /\ run'.cancel_at = "none") =>
              /\ since_energy_ts' = Later(since_energy_ts)
              /\ IF run.attempt < max_attempts
                 THEN /\ run'.attempt = run.attempt + 1
                      /\ run'.n_delays = run.attempt
                      /\ run'.phase = "seq_summary"
                 ELSE /\ run'.seq_state = "exhausted"
                      /\ run.n_delays + 1 = max_attempts
                      /\ run'.phase = "snap"
                      /\ run'.snap_log = <<SnapOrder[1]>>
        /\ (run.seq_state # "exhausted" /\ run'.seq_state = "exhausted") =>
              /\ pc[Tick] = "sleep"
              /\ run.attempt = max_attempts
        /\ (run.phase # "snap" /\ run'.phase = "snap" /\ run.seq_calls = 1) =>
              \/ run.phase = "seq_freq" /\ run'.seq_state = "success"
              \/ pc[Tick] = "sleep" /\ run.n_delays + 1 = max_attempts ]_vars

\* the sequencer was exhausted after attempts that pushed the profile and
\* failed, ten delays have passed on the clock, and the snapshot assembly has
\* issued its first query
C40_Witness ==
    /\ run.seq_state = "exhausted"
    /\ run.status = "running"
    /\ run.phase = "snap"
    /\ run.snap_log = <<SnapOrder[1]>>
    /\ pc[Tick] = "connecting"
    /\ since_energy_ts # NoTimestamp
    /\ since_energy_ts >= max_attempts

\* the first update since platform setup whose snapshot is online, 0 if none
C33_FirstOnline ==
    IF \E i \in 1..Len(sensor.log) : sensor.log[i].online
    THEN CHOOSE i \in 1..Len(sensor.log) :
           /\ sensor.log[i].online
           /\ \A j \in 1..(i - 1) : ~sensor.log[j].online
    ELSE 0

\* C33: the per-hashboard entities are added exactly once: nothing is added
\* before the first update with an online snapshot, and from that update on
\* async_add_entities has been called once, with the five entities of each
\* board of that snapshot; later updates add nothing.
C33_HashboardSensorsOnce ==
    sensor.phase = "platform" =>
      IF C33_FirstOnline = 0 THEN sensor.added = <<>>
      ELSE LET d == sensor.log[C33_FirstOnline]
           IN  sensor.added =
                 << board_entities(d.hashboards, Len(d.hashboards)) >>

\* the raw value of the response "k=<raw value>"
C31_RawValue == SubSeq(text, 3, Len(text))

\* C31: scalar coercion is defined for every single-token raw value and never
\* fails. The parse of "k=<raw value>" returns a record list, and the value
\* under k is an integer when the token is numeric-parseable and has no
\* decimal point, a float when it is numeric-parseable and has one, a boolean
\* when it is true/false in any letter case, and the token itself otherwise.
C31_CoercionTotal ==
    (/\ parsed.done
     /\ Len(split_considering_delimiters(C31_RawValue, " ")) = 1) =>
       /\ ~parsed.raised
       /\ Len(parsed.records) = 1
       /\ LET v == parsed.records[1][<<"k">>]
              raw == C31_RawValue
          IN  IF float_accepts(raw)
              THEN v.type = (IF Contains(raw, ".") THEN "float" ELSE "int")
              ELSE IF is_bool_string(raw) THEN v.type = "bool"
              ELSE v.type = "str" /\ v.val = raw

\* the response with the other form of the same PS token
C32_OtherForm ==
    PowerText(CHOOSE p \in MsgPrefixes : p # wire.prefix, wire.items)

\* C32: the electrical-state query yields the same result for both forms of
\* the status field. For a token PS[...] of integers, alone in Msg or after
\* other text, the call returns without raising, its six fields are the
\* integers in order and 0 for the positions the list lacks; the result for
\* the other form of the same token is the same; and a Msg without a PS
\* token, or no Msg, gives 0 in every field.
C32_SameForBothForms ==
    parsed.done =>
      IF wire.token
      THEN /\ parsed.state = query_hash_power_state(C32_OtherForm)
           /\ (\A i \in 1..Len(wire.items) : int_accepts(wire.items[i])) =>
                /\ parsed.state.raised = "none"
                /\ \A i \in 1..6 :
                     At(<<parsed.state.error, parsed.state.controller_voltage,
                          parsed.state.hash_board_voltage,
                          parsed.state.output_current,
                          parsed.state.output_power,
                          parsed.state.voltage_setting>>, i)
                       = IF i <= Len(wire.items) THEN int_of(wire.items[i]) ELSE 0
      ELSE parsed.state = HashPowerState(<<>>)

====
